---- MODULE Spec2Model ----
(***************************************************************************)
(* jk-webapi-helper: the persistence store (src/lib/storage.ts), the       *)
(* request executor (src/lib/request.ts, src/lib/sign.ts) and the send     *)
(* handler of the page component (app/page.tsx), as state machines.        *)
(*                                                                         *)
(*   SpecStore    the Groups aggregate under the store operations          *)
(*   SpecHistory  the History aggregate under load/push/clear/import       *)
(*   SpecPersist  group and history operations in any order                *)
(*   SpecSend     handleSend driving executeMultipartRequest               *)
(*   SpecExec     executeMultipartRequest called directly, calls overlap   *)
(*   LiveExec     SpecExec with the fairness of the JS event loop          *)
(*   SpecCall     executeMultipartRequest, one call after another          *)
(*   LiveSend     the sends of the page under a fair event loop            *)
(*   SpecSelect   the group and preset handlers, the selection effect      *)
(*   SpecSign     md5UpperHex called directly, under each hashing provider *)
(*   SpecCodec    encodeUtf8ToBase64 then decodeBase64ToUtf8               *)
(*   SpecDecode   decodeBase64ToUtf8 on any text                           *)
(***************************************************************************)
EXTENDS Integers, Sequences, FiniteSets, TLC

VARIABLES
  page,           \* the version of app/page.tsx that runs
  groupsState,    \* StorageGroups held by the page (useState) and threaded through the store
  historyState,   \* StorageHistory held by the page
  storage,        \* localStorage: the parsed values under GROUPS_KEY / HISTORY_KEY
  nextId,         \* generateId(): the next fresh id
  clock,          \* new Date(): a logical clock, one tick per operation
  lastOp,         \* the operation that produced the current state, its arguments and its input
  form,           \* the react-hook-form values of the page
  sign,           \* useState sign: the signature shown in the form
  signJobs,       \* inputs of the sign effect's md5UpperHex calls that have not settled
  isSending,      \* useState isSending
  exec,           \* the executeMultipartRequest call handleSend awaits, NoCall when none
  calls,          \* number of executeMultipartRequest calls so far
  fetches,        \* number of fetch() dispatches so far
  lastExecution,  \* useState lastExecution
  execs,          \* the executeMultipartRequest calls made on the library directly
  importDialogOpen,  \* useState importDialogOpen
  hash,           \* the md5UpperHex call made on the library directly
  codec,          \* the Base64 round trip made on the library directly
  selection       \* useState selectedGroupId and selectedPresetId

envVars == <<page, hash, codec, selection>>
pageVars == <<envVars, importDialogOpen, form, sign, signJobs, isSending, exec, calls, fetches, lastExecution>>
vars == <<groupsState, historyState, storage, nextId, clock, lastOp, pageVars, execs>>

-----------------------------------------------------------------------------
(* Bounds *)

MaxOps == 4         \* store operations per behaviour (also bounds clock and ids)

-----------------------------------------------------------------------------
(* Values *)

Undefined == 0                    \* an absent optional field (lastUsedGroupId?: string)
GhostId == MaxOps + 2             \* an id argument that generateId never returned
Names == {"a", "b"}
Requests == {"req1", "req2"}      \* PresetRequest values, opaque to the store

GeneratedIds == 1 .. (nextId - 1)
IdArgs == GeneratedIds \cup {GhostId}

EmptyGroups == [groups |-> <<>>, lastUsedGroupId |-> Undefined, lastUsedPresetId |-> Undefined]

HISTORY_LIMIT == 500
NoLimit == -1                     \* an absent limit (limit?: number)
DefaultHistory == [items |-> <<>>, limit |-> HISTORY_LIMIT]

\* localStorage with neither key written: getItem returns null
EmptyStorage == [available |-> TRUE,
                 groups  |-> [kind |-> "absent", value |-> EmptyGroups],
                 history |-> [kind |-> "absent", value |-> DefaultHistory]]

\* what the page can find when it starts: no key written, window.localStorage
\* not accessible, the empty text or text that is not JSON under both keys
StartStorages ==
  {EmptyStorage, [EmptyStorage EXCEPT !.available = FALSE]}
  \cup {[EmptyStorage EXCEPT !.groups.kind = k, !.history.kind = k] : k \in {"empty", "invalid"}}

NoPreset == [id |-> Undefined, name |-> "", request |-> "", updatedAt |-> 0]

NoOp == [op |-> "init", groupId |-> Undefined, preset |-> NoPreset, before |-> EmptyGroups]

-----------------------------------------------------------------------------
(* The page: form values, validation, codec and signer on the form's domain *)

Absent == "<undefined>"           \* an absent optional string (errorMessage?: string)
NullStatus == 0                   \* status: null
DEFAULT_TIMEOUT == 30000

\* the two versions of app/page.tsx: the later one refreshes the timestamp on
\* every send and has one send button
Pages == {"part_000", "part_001"}

BuildTs == "20240115093000"       \* getTimestamp() when the page was built
NowTs == "20240115093001"         \* getTimestamp() at the time of a send

\* getTimestamp(): format(new Date(), "yyyyMMddHHmmss")
getTimestamp == NowTs

JsonText == "{\"a\":1}"
JsonB64 == "eyJhIjoxfQ=="          \* Base64 of JsonText

ValidForm ==
  [url |-> "http://h/api", appkey |-> "k", password |-> "p", ver |-> "1",
   timestamp |-> BuildTs, dataRaw |-> JsonText, dataB64 |-> JsonB64, timeoutMs |-> 1000]

\* useForm defaultValues
DefaultForm ==
  [url |-> "", appkey |-> "", password |-> "", ver |-> "1",
   timestamp |-> BuildTs, dataRaw |-> "", dataB64 |-> "", timeoutMs |-> DEFAULT_TIMEOUT]

\* What the user can bring the form to: ValidForm with at most one field changed
FormInputs ==
  {[ValidForm EXCEPT !.url = v] : v \in {"h", "http://h/api"}}
  \cup {[ValidForm EXCEPT !.appkey = v] : v \in {""}}
  \cup {[ValidForm EXCEPT !.password = v] : v \in {""}}
  \cup {[ValidForm EXCEPT !.ver = v] : v \in {""}}
  \cup {[ValidForm EXCEPT !.timestamp = v] : v \in {"2024"}}
  \cup {[ValidForm EXCEPT !.dataRaw = v] : v \in {"", "{a"}}
  \cup {[ValidForm EXCEPT !.dataB64 = v] : v \in {""}}
  \cup {[ValidForm EXCEPT !.timeoutMs = v] : v \in {999}}

\* z.string().url(): on the urls of the domain
isUrl(text) == text \in {"http://h/api"}

\* /^\d{14}$/ on the timestamps of the domain
isTimestamp14(text) == text \in {BuildTs, NowTs}

\* isValidJson: false on the empty string, else whether JSON.parse succeeds
isValidJson(value) == value # "" /\ value \in {JsonText}

\* encodeUtf8ToBase64 on the JSON texts of the domain
encodeUtf8ToBase64(input) ==
  CASE input = "" -> ""
    [] input = JsonText -> JsonB64

\* CryptoJS.MD5(input).toString(Hex).toUpperCase(), and the digest the native
\* md5_upper_hex command answers, on the inputs of the domain
MD5(input) ==
  CASE input = "" -> "D41D8CD98F00B204E9800998ECF8427E"
    [] input = "p" -> "83878C91171338902E0FE0FB97A8C47A"
    [] input = "secret" -> "5EBE2294ECD0E0F08EAB7690D2A6EE69"
    [] input = "eyJhIjoxfQ==" -> "6F659EDDD40C7BD83770A956F40267B2"
    [] input = "eyJhIjoxfQ==p" -> "20C0955C24295C340FBC0E4191FAC877"
    [] input = "eyJhIjoxfQ==secret" -> "D2AE10A7FFA1692B2FC02E079514E52A"
    [] input = "e2E=" -> "560C3287E31B93232D6073BD4048F109"
    [] input = "e2E=p" -> "B51588F802EFCD9239BAB4D1190123C7"
    [] input = "e2E=secret" -> "66DA82A5196E3918FE84D7F75E406EA6"
    [] input = "2024" -> "07811DC6C422334CE36A09FF5CD6FE71"
    [] input = "2024p" -> "0377FF2722E9FDFAC8064C1D2862F6AC"
    [] input = "2024secret" -> "99B131900F936FFCD76533DF259AFC21"
    [] input = "2024eyJhIjoxfQ==" -> "3BCFB9605E302E9AAB12EC96F4975C9C"
    [] input = "2024eyJhIjoxfQ==p" -> "0BAF45907B9B8413737AF8BCCE4E07A7"
    [] input = "2024eyJhIjoxfQ==secret" -> "1DD19E3599298052680A9164647260AA"
    [] input = "2024e2E=" -> "FF44A294C9C118C9040A9E188A0B7F1F"
    [] input = "2024e2E=p" -> "353BDF78AAE6F58E80D99E632EDB3477"
    [] input = "2024e2E=secret" -> "F2046994F83972C1FFF47991F532100E"
    [] input = "20240115093000" -> "2DB4F5E5642E38C0BB47933E9E099710"
    [] input = "20240115093000p" -> "A93AA813A6BF7B9552090E8189020411"
    [] input = "20240115093000secret" -> "E560659861B0E199F270DF94BDABB458"
    [] input = "20240115093000eyJhIjoxfQ==" -> "7FF7C1F8EAFA3E183412994ACADD96CE"
    [] input = "20240115093000eyJhIjoxfQ==p" -> "22EAC03E165E477BB0F551AE10F918D7"
    [] input = "20240115093000eyJhIjoxfQ==secret" -> "73C98F0652469629488F74D8503171F7"
    [] input = "20240115093000e2E=" -> "447BFA4973528FA1118439AD6C7C9EFF"
    [] input = "20240115093000e2E=p" -> "0E0C732716E4931913A95A432D095625"
    [] input = "20240115093000e2E=secret" -> "4219910D269F749C2D7FCD84D3D984BF"
    [] input = "20240115093001" -> "2F30DBCA8831C1C3E4682720DB2C85A8"
    [] input = "20240115093001p" -> "E16FE94B270267F75501AB8D1A72FDF1"
    [] input = "20240115093001secret" -> "DB75593E94AD6A4A3E3255B9E16E80DB"
    [] input = "20240115093001eyJhIjoxfQ==" -> "3D842A66C14BBE4A81B36AB3136E9281"
    [] input = "20240115093001eyJhIjoxfQ==p" -> "F6C59708791853A3EA208A1BA867B878"
    [] input = "20240115093001eyJhIjoxfQ==secret" -> "BDCE6670D81FE4E960C921ED4D26AB0A"
    [] input = "20240115093001e2E=" -> "A912965BCF62343BD16339E414E44F01"
    [] input = "20240115093001e2E=p" -> "3DB7DC31214277DFA7C6C845CFF043FC"
    [] input = "20240115093001e2E=secret" -> "47656928A78B58AE5ABB8F7CD9E38342"
    [] input = "20240115093000eyJhIjoxfQ==p@ss" -> "652CBFCDD797E41B1428770556BD48DC"

\* md5UpperHex(input): "" on the empty input, else the digest (of either provider)
md5UpperHex(input) == IF input = "" THEN "" ELSE MD5(input)

\* formSchema.safeParse(values).success
formSchema(values) ==
  /\ isUrl(values.url)
  /\ Len(values.appkey) >= 1
  /\ Len(values.password) >= 1
  /\ Len(values.ver) >= 1
  /\ isTimestamp14(values.timestamp)
  /\ Len(values.dataRaw) >= 1
  /\ values.timeoutMs >= 1000
  /\ values.timeoutMs <= 600000

NoToast == [title |-> "", description |-> "", variant |-> "default"]
Toast(title, description, variant) ==
  [title |-> title, description |-> description, variant |-> variant]

\* handleConvertBase64(silent): the verdict, the form it leaves and its toast
handleConvertBase64(values, silent) ==
  LET raw == values.dataRaw IN
  IF raw = ""
  THEN [ok |-> FALSE, form |-> values, toast |-> Toast("fill in the JSON text", "", "destructive")]
  ELSE IF ~isValidJson(raw)
  THEN [ok |-> FALSE, form |-> values, toast |-> Toast("JSON format error", "check the data JSON", "destructive")]
  ELSE [ok |-> TRUE, form |-> [values EXCEPT !.dataB64 = encodeUtf8ToBase64(raw)],
        toast |-> IF silent THEN NoToast ELSE Toast("converted to Base64", "", "default")]

\* mutant: the empty Base64 payload is not checked
ensureRequiredSchemaOnly(values) ==
  IF ~formSchema(values)
  THEN [ok |-> FALSE, toast |-> Toast("form validation failed", "", "destructive")]
  ELSE [ok |-> TRUE, toast |-> NoToast]

\* ensureRequiredBeforeSend(): the verdict and its toast
ensureRequiredBeforeSend(values) ==
  IF ~formSchema(values)
  THEN [ok |-> FALSE, toast |-> Toast("form validation failed", "", "destructive")]
  ELSE IF values.dataB64 = ""
  THEN [ok |-> FALSE, toast |-> Toast("Base64 data is empty", "", "destructive")]
  ELSE [ok |-> TRUE, toast |-> NoToast]

\* PresetRequest snapshot of the form values, with the given timestamp
Snapshot(values, timestamp) ==
  [url |-> values.url, appkey |-> values.appkey, password |-> values.password,
   ver |-> values.ver, timestamp |-> timestamp, dataRaw |-> values.dataRaw,
   dataB64 |-> values.dataB64]

\* The HistoryItem handleSend builds
HistoryItem(id, ts, durationMs, status, ok, values, timestamp, sig, responseText, errorMessage) ==
  [id |-> id, ts |-> ts, durationMs |-> durationMs, status |-> status, ok |-> ok,
   requestSummary |-> [url |-> values.url, appkey |-> values.appkey, ver |-> values.ver,
                       timestamp |-> timestamp, sign |-> sig,
                       dataB64Len |-> Len(values.dataB64)],
   responseText |-> responseText, errorMessage |-> errorMessage,
   request |-> Snapshot(values, timestamp)]

NoExecution == [set |-> FALSE, status |-> NullStatus, ok |-> FALSE, durationMs |-> 0,
                timestamp |-> "", sign |-> ""]

\* the FormData of a call before its fields are appended
NoBody == [appkey |-> "", timestamp |-> "", data |-> "", sign |-> "", ver |-> ""]

\* no RequestExecution has been returned
NoResult == [responseText |-> "", status |-> NullStatus, ok |-> FALSE, durationMs |-> 0,
             timestamp |-> "", sign |-> ""]

NoCall == [pc |-> "idle", request |-> Snapshot(DefaultForm, ""), timeoutMs |-> 0,
           forceTime |-> Absent,
           timestamp |-> "", dataB64 |-> "", sign |-> "", timer |-> "none",
           elapsed |-> 0, status |-> NullStatus, error |-> Absent, closureSign |-> "",
           body |-> NoBody, execution |-> NoResult]

\* no md5UpperHex call has been made
NoHash == [pc |-> "idle", input |-> "", native |-> "absent", result |-> ""]

\* no round trip has been made
NoCodec == [pc |-> "idle", hasBuffer |-> FALSE, input |-> <<>>, encoded |-> <<>>,
            decoded |-> [hasData |-> FALSE, data |-> <<>>, error |-> Absent]]

\* no group and no preset is selected
NoSelection == [groupId |-> Undefined, presetId |-> Undefined]

InitPage ==
  /\ form = DefaultForm
  /\ sign = ""
  /\ signJobs = <<>>
  /\ isSending = FALSE
  /\ exec = NoCall
  /\ calls = 0
  /\ fetches = 0
  /\ lastExecution = NoExecution
  /\ execs = <<>>
  /\ importDialogOpen = FALSE
  /\ hash = NoHash
  /\ codec = NoCodec
  /\ selection = NoSelection

-----------------------------------------------------------------------------
(* Array helpers of the store *)

\* Array.prototype.findIndex on preset ids; 0-based, -1 when absent
findIndex(presets, id) ==
  IF \E i \in DOMAIN presets : presets[i].id = id
  THEN (CHOOSE i \in DOMAIN presets :
          /\ presets[i].id = id
          /\ \A j \in DOMAIN presets : presets[j].id = id => i <= j) - 1
  ELSE -1

\* groups.some(g => g.presets.some(p => p.id === id))
somePreset(groups, id) ==
  \E i \in DOMAIN groups : \E j \in DOMAIN groups[i].presets : groups[i].presets[j].id = id

-----------------------------------------------------------------------------
(* The store operations: old aggregate in, new aggregate out *)

\* mutant: the written preset is removed and pushed to the end of the group
upsertPresetMovesToEnd(groupId, preset, existing, now) ==
  LET groups == [i \in DOMAIN existing.groups |->
                   LET group == existing.groups[i] IN
                   IF group.id # groupId THEN group
                   ELSE [group EXCEPT
                           !.presets = Append(SelectSeq(group.presets,
                                                        LAMBDA p : p.id # preset.id), preset),
                           !.updatedAt = now]]
  IN [existing EXCEPT !.groups = groups,
                      !.lastUsedGroupId = groupId,
                      !.lastUsedPresetId = preset.id]

upsertPreset(groupId, preset, existing, now) ==
  LET groups == [i \in DOMAIN existing.groups |->
                   LET group == existing.groups[i] IN
                   IF group.id # groupId THEN group
                   ELSE LET index == findIndex(group.presets, preset.id)
                            presets == IF index = -1
                                       THEN Append(group.presets, preset)
                                       ELSE [j \in DOMAIN group.presets |->
                                               IF group.presets[j].id = preset.id
                                               THEN preset ELSE group.presets[j]]
                        IN [group EXCEPT !.presets = presets, !.updatedAt = now]]
  IN [existing EXCEPT !.groups = groups,
                      !.lastUsedGroupId = groupId,
                      !.lastUsedPresetId = preset.id]

\* mutant: the last used preset survives the creation of a group
createGroupKeepsPreset(name, existing, newId, now) ==
  LET newGroup == [id |-> newId, name |-> name, presets |-> <<>>, updatedAt |-> now]
  IN [existing EXCEPT !.groups = Append(existing.groups, newGroup),
                      !.lastUsedGroupId = newGroup.id]

createGroup(name, existing, newId, now) ==
  LET newGroup == [id |-> newId, name |-> name, presets |-> <<>>, updatedAt |-> now]
  IN [groups |-> Append(existing.groups, newGroup),
      lastUsedGroupId |-> newGroup.id,
      lastUsedPresetId |-> Undefined]

deleteGroup(groupId, existing) ==
  [existing EXCEPT
     !.groups = SelectSeq(existing.groups, LAMBDA g : g.id # groupId),
     !.lastUsedGroupId = IF existing.lastUsedGroupId = groupId
                         THEN Undefined ELSE existing.lastUsedGroupId,
     !.lastUsedPresetId = IF /\ existing.lastUsedPresetId # Undefined
                             /\ somePreset(existing.groups, existing.lastUsedPresetId)
                          THEN existing.lastUsedPresetId ELSE Undefined]

deletePreset(groupId, presetId, existing, now) ==
  LET groups == [i \in DOMAIN existing.groups |->
                   LET group == existing.groups[i] IN
                   IF group.id # groupId THEN group
                   ELSE [group EXCEPT
                           !.presets = SelectSeq(group.presets, LAMBDA p : p.id # presetId),
                           !.updatedAt = now]]
  IN [existing EXCEPT !.groups = groups,
                      !.lastUsedPresetId = IF existing.lastUsedPresetId = presetId
                                           THEN Undefined ELSE existing.lastUsedPresetId]

\* mutant: the renamed group is moved behind the others
renameGroupMovesToEnd(groupId, name, existing, now) ==
  [existing EXCEPT !.groups =
     SelectSeq(existing.groups, LAMBDA g : g.id # groupId)
     \o [i \in DOMAIN SelectSeq(existing.groups, LAMBDA g : g.id = groupId) |->
          [SelectSeq(existing.groups, LAMBDA g : g.id = groupId)[i]
             EXCEPT !.name = name, !.updatedAt = now]]]

renameGroup(groupId, name, existing, now) ==
  [existing EXCEPT !.groups = [i \in DOMAIN existing.groups |->
                                 LET group == existing.groups[i] IN
                                 IF group.id = groupId
                                 THEN [group EXCEPT !.name = name, !.updatedAt = now]
                                 ELSE group]]

\* mutant: the clone becomes the last used preset
clonePresetMarksUsed(groupId, preset, existing, newId, now) ==
  LET clone == [preset EXCEPT !.id = newId, !.name = preset.name \o " Copy", !.updatedAt = now]
  IN [existing EXCEPT !.groups = [i \in DOMAIN existing.groups |->
                                    LET group == existing.groups[i] IN
                                    IF group.id = groupId
                                    THEN [group EXCEPT !.presets = Append(group.presets, clone),
                                                       !.updatedAt = now]
                                    ELSE group],
                      !.lastUsedGroupId = groupId,
                      !.lastUsedPresetId = newId]

clonePreset(groupId, preset, existing, newId, now) ==
  LET clone == [preset EXCEPT !.id = newId, !.name = preset.name \o " Copy", !.updatedAt = now]
  IN [existing EXCEPT !.groups = [i \in DOMAIN existing.groups |->
                                    LET group == existing.groups[i] IN
                                    IF group.id = groupId
                                    THEN [group EXCEPT !.presets = Append(group.presets, clone),
                                                       !.updatedAt = now]
                                    ELSE group]]

\* ensureWindow(): window.localStorage, undefined when it is not accessible
ensureWindow(st) == st.available

\* mutant: a key that holds a value is not written again
writeStorageOnce(key, value, st) ==
  IF ~ensureWindow(st) \/ st[key].kind = "json" THEN st
  ELSE [st EXCEPT ![key] = [kind |-> "json", value |-> value]]

\* writeStorage(key, value): setItem(key, JSON.stringify(value)), nothing
\* without a store
writeStorage(key, value, st) ==
  IF ~ensureWindow(st) THEN st ELSE [st EXCEPT ![key] = [kind |-> "json", value |-> value]]

\* saveGroups: writeStorage(GROUPS_KEY, data) on the store st
saveGroups(data, st) == writeStorage("groups", data, st)

-----------------------------------------------------------------------------
(* Reading the aggregate *)

GroupIds(g) == {g.groups[i].id : i \in DOMAIN g.groups}
PresetsOf(g) == UNION {{g.groups[i].presets[j] : j \in DOMAIN g.groups[i].presets} : i \in DOMAIN g.groups}
PresetIds(g) == {p.id : p \in PresetsOf(g)}
GroupById(g, id) == CHOOSE x \in {g.groups[i] : i \in DOMAIN g.groups} : x.id = id

-----------------------------------------------------------------------------
(* SpecStore: the page applies a store operation to its Groups state *)

StoreStep(op, groupId, preset, result, ids) ==
  /\ clock < MaxOps
  /\ groupsState' = result
  /\ storage' = saveGroups(result, storage)
  /\ nextId' = nextId + ids
  /\ clock' = clock + 1
  /\ lastOp' = [op |-> op, groupId |-> groupId, preset |-> preset, before |-> groupsState]
  /\ UNCHANGED <<historyState, pageVars, execs>>

CreateGroup ==
  \E name \in Names :
    StoreStep("createGroup", nextId, NoPreset,
              createGroup(name, groupsState, nextId, clock), 1)

RenameGroup ==
  \E id \in IdArgs, name \in Names :
    StoreStep("renameGroup", id, NoPreset, renameGroup(id, name, groupsState, clock), 0)

DeleteGroup ==
  \E id \in IdArgs :
    StoreStep("deleteGroup", id, NoPreset, deleteGroup(id, groupsState), 0)

\* handleSavePreset: a preset with a freshly generated id
SavePreset ==
  \E groupId \in IdArgs, name \in Names, req \in Requests :
    LET preset == [id |-> nextId, name |-> name, request |-> req, updatedAt |-> clock]
    IN StoreStep("upsertPreset", groupId, preset,
                 upsertPreset(groupId, preset, groupsState, clock), 1)

\* upsertPreset with a preset that exists (the rename dialog), under any group id
UpsertExisting ==
  \E groupId \in IdArgs, p \in PresetsOf(groupsState), name \in Names :
    LET preset == [p EXCEPT !.name = name, !.updatedAt = clock]
    IN StoreStep("upsertPreset", groupId, preset,
                 upsertPreset(groupId, preset, groupsState, clock), 0)

DeletePreset ==
  \E groupId \in IdArgs, presetId \in IdArgs :
    StoreStep("deletePreset", groupId, [NoPreset EXCEPT !.id = presetId],
              deletePreset(groupId, presetId, groupsState, clock), 0)

ClonePreset ==
  \E groupId \in IdArgs, p \in PresetsOf(groupsState) :
    StoreStep("clonePreset", groupId, p,
              clonePreset(groupId, p, groupsState, nextId, clock), 1)

InitStore ==
  /\ groupsState = EmptyGroups
  /\ historyState = DefaultHistory
  /\ storage = EmptyStorage
  /\ nextId = 1
  /\ clock = 0
  /\ lastOp = NoOp
  /\ page = "part_000"
  /\ InitPage

NextStore ==
  \/ CreateGroup
  \/ RenameGroup
  \/ DeleteGroup
  \/ SavePreset
  \/ UpsertExisting
  \/ DeletePreset
  \/ ClonePreset

SpecStore == InitStore /\ [][NextStore]_vars

-----------------------------------------------------------------------------
(* The History aggregate *)

Min(a, b) == IF a < b THEN a ELSE b
Max(a, b) == IF a > b THEN a ELSE b

\* Array.prototype.slice(0, end): a negative end counts from the back
slice0(arr, end) ==
  LET k == IF end < 0 THEN Max(Len(arr) + end, 0) ELSE Min(end, Len(arr))
  IN SubSeq(arr, 1, k)

\* existing.limit ?? HISTORY_LIMIT
limitOf(existing) == IF existing.limit = NoLimit THEN HISTORY_LIMIT ELSE existing.limit

\* mutant: the truncation keeps one item too many
pushHistoryOffByOne(entry, existing) ==
  LET limit == limitOf(existing)
      items == slice0(<<entry>> \o existing.items, limit + 1)
  IN [existing EXCEPT !.items = items, !.limit = limit]

pushHistory(entry, existing) ==
  LET limit == limitOf(existing)
      items == slice0(<<entry>> \o existing.items, limit)
  IN [existing EXCEPT !.items = items, !.limit = limit]

clearHistory == [items |-> <<>>, limit |-> HISTORY_LIMIT]

\* saveHistory: writeStorage(HISTORY_KEY, data) on the store st
saveHistory(data, st) == writeStorage("history", data, st)

\* how a call ends: it returns a value or it raises
Returns(value) == [raised |-> FALSE, value |-> value]
Raises(value) == [raised |-> TRUE, value |-> value]

\* mutant: JSON.parse outside the try block
readStorageNoCatch(key, fallback, st) ==
  IF ~ensureWindow(st) THEN Returns(fallback)
  ELSE LET raw == st[key] IN
       IF raw.kind \in {"absent", "empty"} THEN Returns(fallback)
       ELSE IF raw.kind = "invalid" THEN Raises(fallback)
       ELSE Returns(raw.value)

\* readStorage(key, fallback): the fallback without a store, for a key that
\* is absent or holds the empty text, and when JSON.parse throws
readStorage(key, fallback, st) ==
  IF ~ensureWindow(st) THEN Returns(fallback)
  ELSE LET raw == st[key] IN
       IF raw.kind \in {"absent", "empty"} THEN Returns(fallback)
       ELSE IF raw.kind = "invalid" THEN Returns(fallback)
       ELSE Returns(raw.value)

loadGroups == readStorage("groups", EmptyGroups, storage)
loadHistory == readStorage("history", DefaultHistory, storage)

\* !data || typeof data !== "object", then !payload.groups || !payload.history:
\* a member that is absent or null is falsy
importAccepts(data) ==
  data.kind = "object" /\ data.groupsIs = "value" /\ data.historyIs = "value"

\* mutant: the payload's history items are put in front of the stored ones
importAllMerges(data, st) ==
  IF importAccepts(data)
  THEN LET merged == [data.history EXCEPT !.items = data.history.items \o st.history.value.items]
       IN [ok |-> TRUE, groups |-> data.groups, history |-> merged,
           storage |-> saveHistory(merged, saveGroups(data.groups, st))]
  ELSE [ok |-> FALSE, groups |-> EmptyGroups, history |-> DefaultHistory, storage |-> st]

\* mutant: the groups are saved before the history member is tested
importAllSavesEarly(data, st) ==
  IF data.kind = "object" /\ data.groupsIs = "value"
  THEN IF data.historyIs = "value"
       THEN [ok |-> TRUE, groups |-> data.groups, history |-> data.history,
             storage |-> saveHistory(data.history, saveGroups(data.groups, st))]
       ELSE [ok |-> FALSE, groups |-> EmptyGroups, history |-> DefaultHistory,
             storage |-> saveGroups(data.groups, st)]
  ELSE [ok |-> FALSE, groups |-> EmptyGroups, history |-> DefaultHistory, storage |-> st]

\* importAll(data): ok is false for the null result; storage is the store
\* after the call
importAll(data, st) ==
  IF importAccepts(data)
  THEN [ok |-> TRUE, groups |-> data.groups, history |-> data.history,
        storage |-> saveHistory(data.history, saveGroups(data.groups, st))]
  ELSE [ok |-> FALSE, groups |-> EmptyGroups, history |-> DefaultHistory, storage |-> st]

-----------------------------------------------------------------------------
(* SpecHistory: the page loads, pushes, clears and imports *)

MaxImport == 3      \* longest item list of an import payload

\* A HistoryItem of a completed 2xx execution of ValidForm
LogEntry(id, now) ==
  HistoryItem(id, now, 0, 200, TRUE, ValidForm, ValidForm.timestamp,
              md5UpperHex(ValidForm.timestamp \o ValidForm.dataB64 \o ValidForm.password),
              "eyJhIjoxfQ==", Absent)

\* item lists of import payloads: ids beyond every generated one
ImportItems == {[i \in 1 .. n |-> LogEntry(GhostId + i, 0)] : n \in 0 .. MaxImport}
ImportLimits == {NoLimit} \cup (0 .. MaxImport - 1)
ImportGroups ==
  {EmptyGroups,
   [groups |-> <<[id |-> GhostId, name |-> "a", presets |-> <<>>, updatedAt |-> 0]>>,
    lastUsedGroupId |-> GhostId, lastUsedPresetId |-> Undefined]}

\* JSON.parse(importText): null, a string, an object; a member of the object
\* is absent, null or a value
Payloads ==
  {[kind |-> k, groupsIs |-> "absent", historyIs |-> "absent",
    groups |-> EmptyGroups, history |-> DefaultHistory] : k \in {"null", "string", "object"}}
  \cup {[kind |-> "object", groupsIs |-> "value", historyIs |-> h,
          groups |-> g, history |-> DefaultHistory] :
            g \in ImportGroups, h \in {"absent", "null"}}
  \cup {[kind |-> "object", groupsIs |-> g, historyIs |-> "value",
          groups |-> EmptyGroups, history |-> DefaultHistory] : g \in {"absent", "null"}}
  \cup {[kind |-> "object", groupsIs |-> "value", historyIs |-> "value",
          groups |-> g, history |-> [items |-> it, limit |-> l]] :
            g \in ImportGroups, it \in ImportItems, l \in ImportLimits}

NoPayload == [kind |-> "null", groupsIs |-> "absent", historyIs |-> "absent",
              groups |-> EmptyGroups, history |-> DefaultHistory]

NoEntry == LogEntry(Undefined, 0)
NoHistOp == [op |-> "init", entry |-> NoEntry, before |-> DefaultHistory, accepted |-> FALSE,
             data |-> NoPayload, raised |-> FALSE]

HistStep(op, entry, accepted, data, raised) ==
  /\ clock < MaxOps
  /\ clock' = clock + 1
  /\ lastOp' = [op |-> op, entry |-> entry, before |-> historyState, accepted |-> accepted,
                data |-> data, raised |-> raised]
  /\ UNCHANGED <<envVars, form, sign, signJobs, isSending, exec, calls, fetches,
                 lastExecution, execs>>

\* the mount effect: setGroupsState(loadGroups()), setHistoryState(loadHistory());
\* the save effects then write both states
LoadHistory ==
  LET storedGroups == loadGroups
      storedHistory == loadHistory
  IN /\ HistStep("loadHistory", NoEntry, FALSE, NoPayload,
                 storedGroups.raised \/ storedHistory.raised)
     /\ groupsState' = storedGroups.value
     /\ historyState' = storedHistory.value
     /\ storage' = saveHistory(storedHistory.value, saveGroups(storedGroups.value, storage))
     /\ UNCHANGED <<nextId, importDialogOpen>>

\* setHistoryState((prev) => pushHistory(log, prev))
PushHistory ==
  LET entry == LogEntry(nextId, clock)
      result == pushHistory(entry, historyState)
  IN /\ HistStep("pushHistory", entry, FALSE, NoPayload, FALSE)
     /\ historyState' = result
     /\ storage' = saveHistory(result, storage)
     /\ nextId' = nextId + 1
     /\ UNCHANGED <<groupsState, importDialogOpen>>

\* handleClearHistory: setHistoryState(clearHistory())
ClearHistory ==
  /\ HistStep("clearHistory", NoEntry, FALSE, NoPayload, FALSE)
  /\ historyState' = clearHistory
  /\ storage' = saveHistory(clearHistory, storage)
  /\ UNCHANGED <<groupsState, nextId, importDialogOpen>>

\* the import button: setImportDialogOpen(true)
OpenImport ==
  /\ ~importDialogOpen
  /\ importDialogOpen' = TRUE
  /\ lastOp' = [NoHistOp EXCEPT !.op = "openImport", !.before = historyState]
  /\ UNCHANGED <<groupsState, historyState, storage, nextId, clock, envVars, form, sign,
                 signJobs, isSending, exec, calls, fetches, lastExecution, execs>>

\* handleImport: importAll(parsed); on null a toast and nothing else, else the
\* states are set from the result and the dialog is closed
ImportAll ==
  \E data \in Payloads :
    LET result == importAll(data, storage)
    IN /\ importDialogOpen
       /\ HistStep("importAll", NoEntry, result.ok, data, FALSE)
       /\ storage' = result.storage
       /\ groupsState' = IF result.ok THEN result.groups ELSE groupsState
       /\ historyState' = IF result.ok THEN result.history ELSE historyState
       /\ importDialogOpen' = IF result.ok THEN FALSE ELSE importDialogOpen
       /\ UNCHANGED nextId

InitHistory ==
  /\ groupsState = EmptyGroups
  /\ historyState = DefaultHistory
  /\ storage \in StartStorages
  /\ nextId = 1
  /\ clock = 0
  /\ lastOp = NoHistOp
  /\ page = "part_000"
  /\ InitPage

NextHistory ==
  \/ LoadHistory
  \/ PushHistory
  \/ ClearHistory
  \/ OpenImport
  \/ ImportAll

SpecHistory == InitHistory /\ [][NextHistory]_vars

-----------------------------------------------------------------------------
(* SpecPersist: the page applies group and history operations in any order *)

NextPersist ==
  \/ NextStore
  \/ LoadHistory
  \/ PushHistory
  \/ ClearHistory

SpecPersist == InitHistory /\ [][NextPersist]_vars

-----------------------------------------------------------------------------
(* The request executor: executeMultipartRequest, one step per suspension *)

MaxSends == 1       \* handleSend calls that reach the executor, per behaviour
MaxSignJobs == 1    \* unsettled md5UpperHex calls of the sign effect
MaxCalls == 2       \* direct executeMultipartRequest calls per behaviour

\* mutant: forceTime || request.timestamp || getTimestamp()
effectiveTimestampTruthy(forceTime, request) ==
  IF forceTime \notin {Absent, ""} THEN forceTime
  ELSE IF request.timestamp \notin {Absent, ""} THEN request.timestamp
  ELSE getTimestamp

\* forceTime ?? request.timestamp ?? getTimestamp()
effectiveTimestamp(forceTime, request) ==
  IF forceTime # Absent THEN forceTime
  ELSE IF request.timestamp # Absent THEN request.timestamp
  ELSE getTimestamp

\* request.dataB64 && request.dataB64.length > 0 ? request.dataB64 : ""
effectiveDataB64(request) ==
  IF request.dataB64 # Absent /\ Len(request.dataB64) > 0 THEN request.dataB64 ELSE ""

\* mutant: the abort timer is never armed
armTimeoutNever(timeoutMs) == "none"

\* setTimeout(() => controller.abort(), timeoutMs)
armTimeout(timeoutMs) == "armed"

\* whole timer ticks (of one second) that timeoutMs lasts
TicksOf(timeoutMs) == timeoutMs \div 1000

\* the call up to its first suspension, await md5UpperHex(...)
startCall(request, timeoutMs, forceTime, closureSign) ==
  [NoCall EXCEPT !.pc = "signing", !.request = request, !.timeoutMs = timeoutMs,
                 !.forceTime = forceTime,
                 !.timestamp = effectiveTimestamp(forceTime, request),
                 !.dataB64 = effectiveDataB64(request),
                 !.closureSign = closureSign]

\* form.append(...) of appkey, timestamp, data, sign and ver
formData(call, signature) ==
  [appkey |-> call.request.appkey, timestamp |-> call.timestamp, data |-> call.dataB64,
   sign |-> signature, ver |-> IF call.request.ver = "" THEN "1" ELSE call.request.ver]

\* mutant: the signature is computed over the request's own timestamp
signatureOfStored(call) ==
  md5UpperHex((IF call.request.timestamp = Absent THEN "" ELSE call.request.timestamp)
              \o call.dataB64 \o call.request.password)

\* md5UpperHex(`${timestamp}${dataB64}${request.password}`)
signatureOf(call) == md5UpperHex(call.timestamp \o call.dataB64 \o call.request.password)

\* md5UpperHex settles: the form data is built, the timer armed, fetch called
dispatched(call) ==
  [call EXCEPT !.pc = "fetching",
               !.sign = signatureOf(call),
               !.body = formData(call, signatureOf(call)),
               !.timer = armTimeout(call.timeoutMs),
               !.elapsed = 0]

\* the call awaits fetch() or res.text()
Pending(call) == call.pc \in {"fetching", "reading"}

\* the abort timer of the call is due
Due(call) == Pending(call) /\ call.elapsed >= TicksOf(call.timeoutMs)

\* a second passes: performance.now() of a pending call moves on
ticked(call) ==
  IF Pending(call) /\ ~Due(call) THEN [call EXCEPT !.elapsed = call.elapsed + 1] ELSE call

\* fetch resolves with the response head; the call awaits res.text()
responded(call, status) == [call EXCEPT !.pc = "reading", !.status = status]

\* fetch or res.text() rejects: the error propagates; finally clears the timer
raised(call, message, timer) ==
  [call EXCEPT !.pc = "raised", !.timer = timer, !.error = message]

\* mutant: every response counts as ok
ExecutionOkAlways(call, text) ==
  [responseText |-> text, status |-> call.status, ok |-> TRUE,
   durationMs |-> call.elapsed * 1000, timestamp |-> call.timestamp, sign |-> call.sign]

\* the RequestExecution a call returns
Execution(call, text) ==
  [responseText |-> text, status |-> call.status,
   ok |-> call.status >= 200 /\ call.status <= 299,
   durationMs |-> call.elapsed * 1000, timestamp |-> call.timestamp, sign |-> call.sign]

\* res.text() resolves: the call returns its RequestExecution; finally clears the timer
returned(call, text) ==
  [call EXCEPT !.pc = "returned", !.timer = "cleared", !.execution = Execution(call, text)]

InFlight == Pending(exec)

-----------------------------------------------------------------------------
(* The sign effect of the page *)

Watched(values) == <<values.timestamp, values.password, values.dataB64>>

EffectRuns(new) == Watched(new) # Watched(form)
EffectSkips(new) == new.timestamp = "" \/ new.password = "" \/ new.dataB64 = ""

\* the sign state and the unsettled md5 calls after the form became new
signAfter(new) == IF EffectRuns(new) /\ EffectSkips(new) THEN "" ELSE sign
jobsAfter(new) ==
  IF EffectRuns(new) /\ ~EffectSkips(new)
  THEN Append(signJobs, new.timestamp \o new.dataB64 \o new.password)
  ELSE signJobs

SetFormTo(new) ==
  /\ Len(jobsAfter(new)) <= MaxSignJobs
  /\ form' = new
  /\ sign' = signAfter(new)
  /\ signJobs' = jobsAfter(new)

\* the handler or step that ran last, its outcome, the toast it showed and
\* the call it finished
SendOp(op, outcome, convertFirst, shown, call) ==
  [op |-> op, outcome |-> outcome, convertFirst |-> convertFirst, toast |-> shown,
   call |-> call]

-----------------------------------------------------------------------------
(* SpecSend: the user edits the form and sends; the executor runs *)

\* the user brings the form to other values (typing, fillFromPreset, restore);
\* edits are followed up to the last send of the behaviour
SetForm ==
  \E new \in FormInputs :
    /\ new # form
    /\ calls < MaxSends \/ isSending
    /\ SetFormTo(new)
    /\ lastOp' = SendOp("setForm", "", FALSE, NoToast, NoCall)
    /\ UNCHANGED <<envVars, importDialogOpen, groupsState, historyState, storage, nextId, clock,
                   isSending, exec, calls, fetches, lastExecution, execs>>

\* compute() of the sign effect resumes: setSign(upper)
SignJobSettles ==
  \E i \in DOMAIN signJobs :
    /\ sign' = md5UpperHex(signJobs[i])
    /\ signJobs' = SubSeq(signJobs, 1, i - 1) \o SubSeq(signJobs, i + 1, Len(signJobs))
    /\ lastOp' = SendOp("signJob", "", FALSE, NoToast, NoCall)
    /\ UNCHANGED <<envVars, importDialogOpen, groupsState, historyState, storage, nextId, clock,
                   form, isSending, exec, calls, fetches, lastExecution, execs>>

\* handleSend(convertFirst) up to its await; refresh: the page version that
\* calls refreshTimestamp() after validation
Send(convertFirst, refresh) ==
  LET conv == IF convertFirst THEN handleConvertBase64(form, TRUE)
              ELSE [ok |-> TRUE, form |-> form, toast |-> NoToast]
      req == ensureRequiredBeforeSend(conv.form)
      values == IF refresh THEN [conv.form EXCEPT !.timestamp = getTimestamp] ELSE conv.form
  IN /\ ~isSending
     /\ UNCHANGED <<envVars, importDialogOpen, groupsState, historyState, storage, nextId, clock, fetches,
                    lastExecution, execs>>
     /\ IF ~conv.ok \/ ~req.ok
        THEN /\ SetFormTo(conv.form)
             /\ lastOp' = SendOp("handleSend", "invalid", convertFirst,
                                 IF ~conv.ok THEN conv.toast ELSE req.toast, NoCall)
             /\ UNCHANGED <<isSending, exec, calls>>
        ELSE /\ calls < MaxSends
             /\ SetFormTo(values)
             /\ isSending' = TRUE
             /\ exec' = startCall(Snapshot(values, values.timestamp), values.timeoutMs,
                                  Absent, sign)
             /\ calls' = calls + 1
             /\ lastOp' = SendOp("handleSend", "started", convertFirst, NoToast, NoCall)

\* the two send buttons of part_000: handleSend(false), handleSend(true)
HandleSend ==
  /\ page = "part_000"
  /\ \E convertFirst \in BOOLEAN : Send(convertFirst, FALSE)

\* the send button of part_001: handleSend(true), which calls refreshTimestamp()
HandleSendRefresh ==
  /\ page = "part_001"
  /\ Send(TRUE, TRUE)

\* md5UpperHex settles: the form data is built, the timer armed, fetch called
Dispatch ==
  /\ exec.pc = "signing"
  /\ exec' = dispatched(exec)
  /\ fetches' = fetches + 1
  /\ lastOp' = SendOp("dispatch", "", FALSE, NoToast, NoCall)
  /\ UNCHANGED <<envVars, importDialogOpen, groupsState, historyState, storage, nextId, clock,
                 form, sign, signJobs, isSending, calls, lastExecution, execs>>

\* a second passes while the request is in flight
Tick ==
  /\ InFlight
  /\ ~Due(exec)
  /\ exec' = ticked(exec)
  /\ lastOp' = SendOp("tick", "", FALSE, NoToast, NoCall)
  /\ UNCHANGED <<envVars, importDialogOpen, groupsState, historyState, storage, nextId, clock,
                 form, sign, signJobs, isSending, calls, fetches, lastExecution, execs>>

\* fetch resolves with the response head; the call awaits res.text()
Respond ==
  \E status \in {200, 500} :
    /\ exec.pc = "fetching"
    /\ exec' = responded(exec, status)
    /\ lastOp' = SendOp("respond", "", FALSE, NoToast, NoCall)
    /\ UNCHANGED <<envVars, importDialogOpen, groupsState, historyState, storage, nextId, clock,
                   form, sign, signJobs, isSending, calls, fetches, lastExecution, execs>>

\* mutant: the catch branch does not log the failure
FailedWithoutLog(op, message, timer) ==
  /\ exec' = NoCall
  /\ lastOp' = SendOp(op, "raised", FALSE, Toast("request failed", message, "destructive"),
                      raised(exec, message, timer))
  /\ lastExecution' = NoExecution
  /\ isSending' = FALSE
  /\ UNCHANGED <<envVars, importDialogOpen, groupsState, historyState, storage, nextId, clock,
                 form, sign, signJobs, calls, fetches, execs>>

\* mutant: the catch branch logs the time measured so far
FailedWithDuration(op, message, timer) ==
  LET log == HistoryItem(nextId, clock, exec.elapsed * 1000, NullStatus, FALSE, exec.request,
                         exec.request.timestamp, exec.closureSign, "", message)
      result == pushHistory(log, historyState)
  IN /\ exec' = NoCall
     /\ lastOp' = SendOp(op, "raised", FALSE, Toast("request failed", message, "destructive"),
                         raised(exec, message, timer))
     /\ historyState' = result
     /\ storage' = saveHistory(result, storage)
     /\ nextId' = nextId + 1
     /\ lastExecution' = NoExecution
     /\ isSending' = FALSE
     /\ UNCHANGED <<envVars, importDialogOpen, groupsState, clock, form, sign, signJobs, calls, fetches, execs>>

\* the call raises: the catch branch and the finally of handleSend
Failed(op, message, timer) ==
  LET log == HistoryItem(nextId, clock, 0, NullStatus, FALSE, exec.request,
                         exec.request.timestamp, exec.closureSign, "", message)
      result == pushHistory(log, historyState)
  IN /\ exec' = NoCall
     /\ lastOp' = SendOp(op, "raised", FALSE, Toast("request failed", message, "destructive"),
                         raised(exec, message, timer))
     /\ historyState' = result
     /\ storage' = saveHistory(result, storage)
     /\ nextId' = nextId + 1
     /\ lastExecution' = NoExecution
     /\ isSending' = FALSE
     /\ UNCHANGED <<envVars, importDialogOpen, groupsState, clock, form, sign, signJobs, calls, fetches, execs>>

\* mutant: the try branch ends without the finally of handleSend
BodyReadKeepsSending ==
  \E text \in {"eyJhIjoxfQ=="} :
    LET execution == Execution(exec, text)
        log == HistoryItem(nextId, clock, execution.durationMs, execution.status,
                           execution.ok, exec.request, execution.timestamp, execution.sign,
                           execution.responseText,
                           IF execution.ok THEN Absent ELSE "HTTP non-2xx")
        result == pushHistory(log, historyState)
    IN /\ exec.pc = "reading"
       /\ exec' = NoCall
       /\ historyState' = result
       /\ storage' = saveHistory(result, storage)
       /\ nextId' = nextId + 1
       /\ lastExecution' = [set |-> TRUE, status |-> execution.status, ok |-> execution.ok,
                            durationMs |-> execution.durationMs,
                            timestamp |-> execution.timestamp, sign |-> execution.sign]
       /\ isSending' = isSending
       /\ lastOp' = SendOp("bodyRead", "returned",
                           FALSE,
                           Toast(IF execution.ok THEN "request succeeded"
                                 ELSE "request finished (non-2xx)", "", "default"),
                           returned(exec, text))
       /\ UNCHANGED <<envVars, importDialogOpen, groupsState, clock, form, sign, signJobs, calls, fetches, execs>>

\* the body is read: the call returns; the try branch and the finally of handleSend
BodyRead ==
  \E text \in {"eyJhIjoxfQ=="} :
    LET execution == Execution(exec, text)
        log == HistoryItem(nextId, clock, execution.durationMs, execution.status,
                           execution.ok, exec.request, execution.timestamp, execution.sign,
                           execution.responseText,
                           IF execution.ok THEN Absent ELSE "HTTP non-2xx")
        result == pushHistory(log, historyState)
    IN /\ exec.pc = "reading"
       /\ exec' = NoCall
       /\ historyState' = result
       /\ storage' = saveHistory(result, storage)
       /\ nextId' = nextId + 1
       /\ lastExecution' = [set |-> TRUE, status |-> execution.status, ok |-> execution.ok,
                            durationMs |-> execution.durationMs,
                            timestamp |-> execution.timestamp, sign |-> execution.sign]
       /\ isSending' = FALSE
       /\ lastOp' = SendOp("bodyRead", "returned",
                           FALSE,
                           Toast(IF execution.ok THEN "request succeeded"
                                 ELSE "request finished (non-2xx)", "", "default"),
                           returned(exec, text))
       /\ UNCHANGED <<envVars, importDialogOpen, groupsState, clock, form, sign, signJobs, calls, fetches, execs>>

\* fetch or res.text() rejects: network failure
FetchFails ==
  /\ InFlight
  /\ Failed("fetchFails", "Failed to fetch", "cleared")

\* the timer fires: controller.abort() rejects the pending fetch or res.text()
TimerFires ==
  /\ Due(exec)
  /\ exec.timer = "armed"
  /\ Failed("timerFires", "The operation was aborted", "fired")

InitSend ==
  /\ groupsState = EmptyGroups
  /\ historyState = DefaultHistory
  /\ storage = EmptyStorage
  /\ nextId = 1
  /\ clock = 0
  /\ lastOp = SendOp("init", "", FALSE, NoToast, NoCall)
  /\ page \in Pages
  /\ InitPage

NextSend ==
  \/ SetForm
  \/ SignJobSettles
  \/ HandleSend
  \/ HandleSendRefresh
  \/ Dispatch
  \/ Tick
  \/ Respond
  \/ BodyRead
  \/ FetchFails
  \/ TimerFires

SpecSend == InitSend /\ [][NextSend]_vars

-----------------------------------------------------------------------------
(* LiveSend: the sends of the page under a fair event loop *)

\* the valid forms the user sends: a short and a long timeout
LiveForms == {ValidForm, [ValidForm EXCEPT !.timeoutMs = 2000]}

\* the user fills the form with a valid request
FillForm ==
  \E new \in LiveForms :
    /\ new # form
    /\ calls < MaxSends \/ isSending
    /\ SetFormTo(new)
    /\ lastOp' = SendOp("setForm", "", FALSE, NoToast, NoCall)
    /\ UNCHANGED <<envVars, importDialogOpen, groupsState, historyState, storage, nextId, clock,
                   isSending, exec, calls, fetches, lastExecution, execs>>

NextSending ==
  \/ FillForm
  \/ SignJobSettles
  \/ HandleSend
  \/ HandleSendRefresh
  \/ Dispatch
  \/ Tick
  \/ Respond
  \/ BodyRead
  \/ FetchFails
  \/ TimerFires

\* The event loop runs settled promises and due timers and time passes: the
\* local md5 call of the executor settles, the abort timer fires when due.
\* The server need not answer and the user need not act.
LiveSend ==
  /\ InitSend
  /\ [][NextSending]_vars
  /\ WF_vars(Dispatch)
  /\ WF_vars(Tick)
  /\ WF_vars(TimerFires)

-----------------------------------------------------------------------------
(* SpecExec: executeMultipartRequest called directly; the calls overlap *)

\* the RequestOptions of the overlapping calls: two requests, two timeouts
\* (SpecCall covers every branch of the timestamp and payload resolution)
RequestOptions ==
  {[request |-> Snapshot(ValidForm, BuildTs), timeoutMs |-> 1000, forceTime |-> Absent],
   [request |-> [Snapshot(ValidForm, BuildTs) EXCEPT !.dataB64 = ""],
    timeoutMs |-> 2000, forceTime |-> NowTs]}

execUnchanged ==
  UNCHANGED <<groupsState, historyState, storage, nextId, clock, lastOp, pageVars>>

\* executeMultipartRequest(options) is called, up to its first suspension
Execute ==
  \E options \in RequestOptions :
    /\ Len(execs) < MaxCalls
    /\ execs' = Append(execs, startCall(options.request, options.timeoutMs,
                                        options.forceTime, ""))
    /\ execUnchanged

\* md5UpperHex of call i settles: its timer is armed, its fetch called
SignSettles(i) ==
  /\ i \in DOMAIN execs
  /\ execs[i].pc = "signing"
  /\ execs' = [execs EXCEPT ![i] = dispatched(execs[i])]
  /\ execUnchanged

\* a second passes for every pending call; no due timer is overrun
TimePasses ==
  /\ \E i \in DOMAIN execs : Pending(execs[i]) /\ ~Due(execs[i])
  /\ \A i \in DOMAIN execs : ~(Due(execs[i]) /\ execs[i].timer = "armed")
  /\ execs' = [i \in DOMAIN execs |-> ticked(execs[i])]
  /\ execUnchanged

\* the fetch of call i resolves with the response head
HeadArrives(i) ==
  \E status \in {200, 500} :
    /\ i \in DOMAIN execs
    /\ execs[i].pc = "fetching"
    /\ execs' = [execs EXCEPT ![i] = responded(execs[i], status)]
    /\ execUnchanged

\* res.text() of call i resolves: the call returns its RequestExecution
BodyArrives(i) ==
  \E text \in {"eyJhIjoxfQ=="} :
    /\ i \in DOMAIN execs
    /\ execs[i].pc = "reading"
    /\ execs' = [execs EXCEPT ![i] = returned(execs[i], text)]
    /\ execUnchanged

\* fetch or res.text() of call i rejects: network failure
TransportFails(i) ==
  /\ i \in DOMAIN execs
  /\ Pending(execs[i])
  /\ execs' = [execs EXCEPT ![i] = raised(execs[i], "Failed to fetch", "cleared")]
  /\ execUnchanged

\* mutant: one controller for all calls, its abort rejects every pending await
AbortFiresShared(i) ==
  /\ i \in DOMAIN execs
  /\ Due(execs[i])
  /\ execs[i].timer = "armed"
  /\ execs' = [k \in DOMAIN execs |->
                IF Pending(execs[k])
                THEN raised(execs[k], "The operation was aborted", "fired")
                ELSE execs[k]]
  /\ execUnchanged

\* the timer of call i fires: controller.abort() rejects its pending await
AbortFires(i) ==
  /\ i \in DOMAIN execs
  /\ Due(execs[i])
  /\ execs[i].timer = "armed"
  /\ execs' = [execs EXCEPT ![i] = raised(execs[i], "The operation was aborted", "fired")]
  /\ execUnchanged

InitExec ==
  /\ groupsState = EmptyGroups
  /\ historyState = DefaultHistory
  /\ storage = EmptyStorage
  /\ nextId = 1
  /\ clock = 0
  /\ lastOp = SendOp("init", "", FALSE, NoToast, NoCall)
  /\ page = "part_000"
  /\ InitPage

NextExec ==
  \/ Execute
  \/ \E i \in 1 .. MaxCalls : SignSettles(i)
  \/ TimePasses
  \/ \E i \in 1 .. MaxCalls : HeadArrives(i)
  \/ \E i \in 1 .. MaxCalls : BodyArrives(i)
  \/ \E i \in 1 .. MaxCalls : TransportFails(i)
  \/ \E i \in 1 .. MaxCalls : AbortFires(i)

SpecExec == InitExec /\ [][NextExec]_vars

\* The event loop runs due timers and settled promises; time passes; the
\* local md5 call settles. The server need not answer.
LiveExec ==
  /\ SpecExec
  /\ WF_vars(TimePasses)
  /\ \A i \in 1 .. MaxCalls : WF_vars(SignSettles(i)) /\ WF_vars(AbortFires(i))

-----------------------------------------------------------------------------
(* SpecCall: executeMultipartRequest called directly, one call after another, *)
(* over every branch of the timestamp and of the payload resolution           *)

\* the RequestOptions of the calls: forceTime and request.timestamp undefined,
\* empty or set; request.dataB64 undefined, empty, stale or current
CallOptions ==
  {[request |-> [Snapshot([ValidForm EXCEPT !.password = secret], stored)
                   EXCEPT !.dataB64 = payload],
    timeoutMs |-> 1000, forceTime |-> forced] :
     secret \in {"", "p"}, stored \in {Absent, "", "2024", BuildTs},
     payload \in {Absent, "", "e2E=", JsonB64}, forced \in {Absent, "", NowTs}}

\* the call has settled
Settled(call) == call.pc \in {"returned", "raised"}

\* executeMultipartRequest(options) is called once the call before it has settled
ExecuteNext ==
  \E options \in CallOptions :
    /\ \A i \in DOMAIN execs : Settled(execs[i])
    /\ execs' = <<startCall(options.request, options.timeoutMs, options.forceTime, "")>>
    /\ execUnchanged

NextCall ==
  \/ ExecuteNext
  \/ SignSettles(1)
  \/ TimePasses
  \/ HeadArrives(1)
  \/ BodyArrives(1)
  \/ TransportFails(1)
  \/ AbortFires(1)

SpecCall == InitExec /\ [][NextCall]_vars

-----------------------------------------------------------------------------
(* SpecSign: md5UpperHex called directly, one step per suspension *)

\* the timestamps, payloads and secrets a caller concatenates
SignTimestamps == {"", BuildTs, NowTs}
SignPayloads == {"", JsonB64, "e2E="}
SignSecrets == {"", "p", "secret"}
SignInputs == {t \o d \o p : t \in SignTimestamps, d \in SignPayloads, p \in SignSecrets}

\* the hashing backend of the runtime: the Tauri command answers, the command
\* fails, or there is no Tauri shell so that invoke() throws
Providers == {"answers", "fails", "absent"}

\* the digest the native md5_upper_hex command answers
nativeMd5UpperHex(input) == MD5(input)

\* md5UpperHex(input) up to its first suspension: the empty input returns ""
\* at once, any other input awaits invoke("md5_upper_hex", { input })
invoked(input, native) ==
  IF input = ""
  THEN [pc |-> "returned", input |-> input, native |-> native, result |-> ""]
  ELSE [pc |-> "invoking", input |-> input, native |-> native, result |-> ""]

\* invoke resolves: its answer is returned
nativeAnswered(call) ==
  [call EXCEPT !.pc = "returned", !.result = nativeMd5UpperHex(call.input)]

\* mutant: the rejection of invoke is not caught
nativeRejectedRethrows(call) == [call EXCEPT !.pc = "raised"]

\* invoke rejects or throws: catch { CryptoJS.MD5(input).toString(Hex).toUpperCase() }
nativeRejected(call) == [call EXCEPT !.pc = "returned", !.result = MD5(call.input)]

signUnchanged ==
  UNCHANGED <<groupsState, historyState, storage, nextId, clock, lastOp, page, codec, selection,
              importDialogOpen, form, sign, signJobs, isSending, exec, calls, fetches,
              lastExecution, execs>>

\* md5UpperHex(input) is called
Md5UpperHex ==
  \E input \in SignInputs, native \in Providers :
    /\ hash.pc \in {"idle", "returned"}
    /\ hash' = invoked(input, native)
    /\ signUnchanged

\* the native command answers
NativeAnswers ==
  /\ hash.pc = "invoking"
  /\ hash.native = "answers"
  /\ hash' = nativeAnswered(hash)
  /\ signUnchanged

\* the native command fails, or invoke throws for want of a Tauri shell
NativeRejects ==
  /\ hash.pc = "invoking"
  /\ hash.native \in {"fails", "absent"}
  /\ hash' = nativeRejected(hash)
  /\ signUnchanged

NextSign == Md5UpperHex \/ NativeAnswers \/ NativeRejects

SpecSign == InitExec /\ [][NextSign]_vars

-----------------------------------------------------------------------------
(* The Base64 codec on strings of UTF-16 code units; bytes are 0 .. 255 and a *)
(* Base64 text is a sequence of alphabet indexes 0 .. 63, with Pad for "="    *)

MaxStrLen == 3      \* code points per input string

\* "+", "a", U+00E9, U+4E2D, U+1F600: one to four bytes of UTF-8 each
CodePoints == {43, 97, 233, 20013, 128512}

Pad == 64
REPLACEMENT == 65533

isHighSurrogate(unit) == unit >= 55296 /\ unit <= 56319
isLowSurrogate(unit) == unit >= 56320 /\ unit <= 57343

\* the UTF-16 code units of a code point
codeUnits(cp) ==
  IF cp < 65536 THEN <<cp>>
  ELSE <<55296 + ((cp - 65536) \div 1024), 56320 + ((cp - 65536) % 1024)>>

RECURSIVE stringOf(_)
\* the string made of the given code points
stringOf(cps) == IF cps = <<>> THEN <<>> ELSE codeUnits(Head(cps)) \o stringOf(Tail(cps))

\* the input strings: every sequence of at most MaxStrLen code points
Strings == {stringOf(cps) : cps \in UNION {[1 .. n -> CodePoints] : n \in 0 .. MaxStrLen}}

\* the UTF-8 bytes of a code point
utf8Of(cp) ==
  IF cp < 128 THEN <<cp>>
  ELSE IF cp < 2048 THEN <<192 + (cp \div 64), 128 + (cp % 64)>>
  ELSE IF cp < 65536
    THEN <<224 + (cp \div 4096), 128 + ((cp \div 64) % 64), 128 + (cp % 64)>>
  ELSE <<240 + (cp \div 262144), 128 + ((cp \div 4096) % 64),
         128 + ((cp \div 64) % 64), 128 + (cp % 64)>>

\* the string starts with a surrogate pair
startsWithPair(input) ==
  Len(input) >= 2 /\ isHighSurrogate(input[1]) /\ isLowSurrogate(input[2])

pairCodePoint(high, low) == 65536 + (high - 55296) * 1024 + (low - 56320)

isSurrogate(unit) == isHighSurrogate(unit) \/ isLowSurrogate(unit)

RECURSIVE bufferFromUtf8(_)
\* Buffer.from(input, "utf-8"): a lone surrogate becomes U+FFFD
bufferFromUtf8(input) ==
  IF input = <<>> THEN <<>>
  ELSE IF startsWithPair(input)
    THEN utf8Of(pairCodePoint(input[1], input[2])) \o bufferFromUtf8(Tail(Tail(input)))
  ELSE IF isSurrogate(input[1]) THEN utf8Of(REPLACEMENT) \o bufferFromUtf8(Tail(input))
  ELSE utf8Of(input[1]) \o bufferFromUtf8(Tail(input))

Alnum == (48 .. 57) \cup (65 .. 90) \cup (97 .. 122)
\* the characters encodeURIComponent leaves alone: A-Z a-z 0-9 - _ . ! ~ * ' ( )
UriUnreserved == Alnum \cup {45, 95, 46, 33, 126, 42, 39, 40, 41}
\* the characters escape leaves alone: A-Z a-z 0-9 @ * _ + - . /
EscapeSafe == Alnum \cup {64, 42, 95, 43, 45, 46, 47}

\* one character of an escaped text: a literal character, or %XX for a byte
Literal(code) == [pct |-> FALSE, code |-> code]
Percent(byte) == [pct |-> TRUE, code |-> byte]

\* the escaped form of the bytes of one code point
uriEscaped(bytes) ==
  [i \in 1 .. Len(bytes) |->
     IF bytes[i] \in UriUnreserved THEN Literal(bytes[i]) ELSE Percent(bytes[i])]

RECURSIVE encodeURIComponent(_)
\* encodeURIComponent(input): the UTF-8 bytes percent-escaped; URIError on a
\* lone surrogate
encodeURIComponent(input) ==
  IF input = <<>> THEN [raised |-> FALSE, text |-> <<>>]
  ELSE IF startsWithPair(input)
    THEN LET rest == encodeURIComponent(Tail(Tail(input)))
         IN [raised |-> rest.raised,
             text |-> uriEscaped(utf8Of(pairCodePoint(input[1], input[2]))) \o rest.text]
  ELSE IF isSurrogate(input[1]) THEN [raised |-> TRUE, text |-> <<>>]
  ELSE LET rest == encodeURIComponent(Tail(input))
       IN [raised |-> rest.raised, text |-> uriEscaped(utf8Of(input[1])) \o rest.text]

\* unescape(text): each %XX becomes the character of code XX
unescape(text) == [i \in 1 .. Len(text) |-> text[i].code]

\* mutant: btoa is given the string itself
toBinaryStringLatin1(input) == [raised |-> FALSE, text |-> input]

\* unescape(encodeURIComponent(input))
toBinaryString(input) ==
  LET escaped == encodeURIComponent(input)
  IN [raised |-> escaped.raised, text |-> unescape(escaped.text)]

RECURSIVE toBase64(_)
\* the Base64 text of a byte sequence, padded
toBase64(bytes) ==
  IF bytes = <<>> THEN <<>>
  ELSE IF Len(bytes) = 1
    THEN <<bytes[1] \div 4, (bytes[1] % 4) * 16, Pad, Pad>>
  ELSE IF Len(bytes) = 2
    THEN <<bytes[1] \div 4, (bytes[1] % 4) * 16 + (bytes[2] \div 16),
           (bytes[2] % 16) * 4, Pad>>
  ELSE <<bytes[1] \div 4, (bytes[1] % 4) * 16 + (bytes[2] \div 16),
         (bytes[2] % 16) * 4 + (bytes[3] \div 64), bytes[3] % 64>>
       \o toBase64(SubSeq(bytes, 4, Len(bytes)))

\* btoa(text): InvalidCharacterError on a character above 255
btoa(text) ==
  IF \E i \in DOMAIN text : text[i] > 255 THEN [raised |-> TRUE, text |-> <<>>]
  ELSE [raised |-> FALSE, text |-> toBase64(text)]

\* the text after the given number of characters
drop(text, n) == SubSeq(text, n + 1, Len(text))

RECURSIVE fromBase64(_)
\* the bytes of a Base64 text without its padding; a last group of two or
\* three characters gives one or two bytes, a single character none
fromBase64(text) ==
  IF Len(text) < 2 THEN <<>>
  ELSE IF Len(text) = 2 THEN <<text[1] * 4 + (text[2] \div 16)>>
  ELSE IF Len(text) = 3
    THEN <<text[1] * 4 + (text[2] \div 16), (text[2] % 16) * 16 + (text[3] \div 4)>>
  ELSE <<text[1] * 4 + (text[2] \div 16), (text[2] % 16) * 16 + (text[3] \div 4),
         (text[3] % 4) * 64 + text[4]>>
       \o fromBase64(drop(text, 4))

unpadded(text) == SelectSeq(text, LAMBDA symbol : symbol # Pad)

\* the padding of the text is at its end only, and at most two characters
paddedAtEnd(text) ==
  /\ \A i \in DOMAIN text : text[i] = Pad => i > Len(text) - 2
  /\ \A i \in DOMAIN text : text[i] = Pad /\ i < Len(text) => text[i + 1] = Pad

\* a character outside the Base64 alphabet, such as "!"
Invalid == 65

\* the characters of the text that belong to the alphabet
alphabetOnly(text) == SelectSeq(text, LAMBDA symbol : symbol < Pad)

\* atob(input): InvalidCharacterError unless the text is well formed
atob(input) ==
  IF (\A i \in DOMAIN input : input[i] # Invalid)
     /\ paddedAtEnd(input) /\ (Len(input) % 4 = 0 \/ (Len(unpadded(input)) = Len(input)
                                                   /\ Len(input) % 4 # 1))
  THEN [raised |-> FALSE, text |-> fromBase64(unpadded(input))]
  ELSE [raised |-> TRUE, text |-> <<>>]

\* Buffer.from(input, "base64"): never throws, decodes the characters of the
\* alphabet and passes over the others
bufferFromBase64(input) == fromBase64(alphabetOnly(input))

\* escape(text): %XX for every character outside EscapeSafe
escape(text) ==
  [i \in 1 .. Len(text) |->
     IF text[i] \in EscapeSafe THEN Literal(text[i]) ELSE Percent(text[i])]

isContinuation(byte) == byte >= 128 /\ byte <= 191

\* the length of the UTF-8 sequence a lead byte announces, 0 for no lead byte
sequenceLength(byte) ==
  IF byte < 128 THEN 1
  ELSE IF byte >= 194 /\ byte <= 223 THEN 2
  ELSE IF byte >= 224 /\ byte <= 239 THEN 3
  ELSE IF byte >= 240 /\ byte <= 244 THEN 4
  ELSE 0

\* the first UTF-8 sequence of the bytes: whether it is valid, and its code point
firstSequence(bytes) ==
  LET n == sequenceLength(bytes[1])
      cp == IF n = 1 THEN bytes[1]
            ELSE IF n = 2 THEN (bytes[1] - 192) * 64 + (bytes[2] - 128)
            ELSE IF n = 3
              THEN (bytes[1] - 224) * 4096 + (bytes[2] - 128) * 64 + (bytes[3] - 128)
            ELSE (bytes[1] - 240) * 262144 + (bytes[2] - 128) * 4096
                 + (bytes[3] - 128) * 64 + (bytes[4] - 128)
  IN IF n = 0 \/ Len(bytes) < n \/ \E i \in 2 .. n : ~isContinuation(bytes[i])
     THEN [ok |-> FALSE, cp |-> REPLACEMENT, length |-> 1]
     ELSE IF (n = 3 /\ (cp < 2048 \/ isSurrogate(cp))) \/ (n = 4 /\ (cp < 65536 \/ cp > 1114111))
     THEN [ok |-> FALSE, cp |-> REPLACEMENT, length |-> 1]
     ELSE [ok |-> TRUE, cp |-> cp, length |-> n]

RECURSIVE decodeUtf8(_)
\* the string of a byte sequence, U+FFFD for each byte of no valid sequence,
\* and whether every sequence was valid
decodeUtf8(bytes) ==
  IF bytes = <<>> THEN [valid |-> TRUE, text |-> <<>>]
  ELSE LET first == firstSequence(bytes)
           rest == decodeUtf8(drop(bytes, first.length))
       IN [valid |-> first.ok /\ rest.valid, text |-> codeUnits(first.cp) \o rest.text]

\* buffer.toString("utf-8"): never throws
bufferToString(bytes) == decodeUtf8(bytes).text

\* decodeURIComponent(text): URIError unless the escaped bytes are valid UTF-8
decodeURIComponent(text) ==
  LET decoded == decodeUtf8(unescape(text))
  IN IF decoded.valid THEN [raised |-> FALSE, text |-> decoded.text]
     ELSE [raised |-> TRUE, text |-> <<>>]

\* { data } and { error }
DataResult(data) == [hasData |-> TRUE, data |-> data, error |-> Absent]
ErrorResult(message) == [hasData |-> FALSE, data |-> <<>>, error |-> message]

\* encodeUtf8ToBase64(input) with and without a global Buffer: the text, or
\* the error that escapes
encodeUtf8ToBase64Units(hasBuffer, input) ==
  IF input = <<>> THEN [raised |-> FALSE, text |-> <<>>]
  ELSE IF hasBuffer THEN [raised |-> FALSE, text |-> toBase64(bufferFromUtf8(input))]
  ELSE LET binary == toBinaryString(input)
       IN IF binary.raised THEN [raised |-> TRUE, text |-> <<>>] ELSE btoa(binary.text)

\* decodeBase64ToUtf8(input) with and without a global Buffer
decodeBase64ToUtf8(hasBuffer, input) ==
  IF input = <<>> THEN DataResult(<<>>)
  ELSE IF hasBuffer THEN DataResult(bufferToString(bufferFromBase64(input)))
  ELSE LET binary == atob(input)
       IN IF binary.raised THEN ErrorResult("InvalidCharacterError")
          ELSE LET decoded == decodeURIComponent(escape(binary.text))
               IN IF decoded.raised THEN ErrorResult("URI malformed")
                  ELSE DataResult(decoded.text)

-----------------------------------------------------------------------------
(* SpecCodec: a string is encoded, then the result decoded, in one runtime *)

codecUnchanged ==
  UNCHANGED <<groupsState, historyState, storage, nextId, clock, lastOp, page, hash, selection,
              importDialogOpen, form, sign, signJobs, isSending, exec, calls, fetches,
              lastExecution, execs>>

\* encodeUtf8ToBase64(input) is called
Encode ==
  \E input \in Strings, hasBuffer \in BOOLEAN :
    LET encoded == encodeUtf8ToBase64Units(hasBuffer, input)
    IN /\ codec.pc \in {"idle", "decoded"}
       /\ codec' = [NoCodec EXCEPT !.pc = IF encoded.raised THEN "raised" ELSE "encoded",
                                   !.hasBuffer = hasBuffer, !.input = input,
                                   !.encoded = encoded.text]
       /\ codecUnchanged

\* decodeBase64ToUtf8 is called on what the encoder returned
Decode ==
  /\ codec.pc = "encoded"
  /\ codec' = [codec EXCEPT !.pc = "decoded",
                            !.decoded = decodeBase64ToUtf8(codec.hasBuffer, codec.encoded)]
  /\ codecUnchanged

NextCodec == Encode \/ Decode

SpecCodec == InitExec /\ [][NextCodec]_vars

-----------------------------------------------------------------------------
(* SpecDecode: decodeBase64ToUtf8 called on any text *)

MaxTextLen == 4     \* characters per Base64 text

\* "Y", "Q", "/", "=" and "!"
TextSymbols == {24, 16, 63, Pad, Invalid}

\* the texts given to the decoder: every sequence of at most MaxTextLen characters
Base64Texts == UNION {[1 .. n -> TextSymbols] : n \in 0 .. MaxTextLen}

\* decodeBase64ToUtf8(text) is called
DecodeText ==
  \E text \in Base64Texts, hasBuffer \in BOOLEAN :
    /\ codec.pc = "idle"
    /\ codec' = [NoCodec EXCEPT !.pc = "decodedText", !.hasBuffer = hasBuffer,
                                !.encoded = text,
                                !.decoded = decodeBase64ToUtf8(hasBuffer, text)]
    /\ codecUnchanged

NextDecode == DecodeText

SpecDecode == InitExec /\ [][NextDecode]_vars

-----------------------------------------------------------------------------
(* SpecSelect: the group and preset handlers of the page, each followed by   *)
(* the selection effect and the sign effect it triggers                      *)

MaxSelectOps == 3   \* store operations of the page per behaviour

\* what the user types into the form between two selections
SelectForms == {ValidForm, [ValidForm EXCEPT !.password = "secret"]}

\* groups.find(g => g.id === id): the index of the first match, 0 for undefined
findById(items, id) ==
  IF \E i \in DOMAIN items : items[i].id = id
  THEN CHOOSE i \in DOMAIN items :
         items[i].id = id /\ \A j \in DOMAIN items : items[j].id = id => i <= j
  ELSE 0

\* fillFromPreset(preset): form.reset(...) with the request of the preset
fillFromPreset(preset, values) ==
  [url |-> preset.request.url, appkey |-> preset.request.appkey,
   password |-> preset.request.password,
   ver |-> IF preset.request.ver = Absent THEN "1" ELSE preset.request.ver,
   timestamp |-> IF preset.request.timestamp = Absent THEN getTimestamp
                 ELSE preset.request.timestamp,
   dataRaw |-> preset.request.dataRaw,
   dataB64 |-> IF preset.request.dataB64 = Absent THEN "" ELSE preset.request.dataB64,
   timeoutMs |-> IF values.timeoutMs = 0 THEN DEFAULT_TIMEOUT ELSE values.timeoutMs]

\* mutant: the effect never selects a preset by itself
selectionEffectNoDefault(selected, groups, values) ==
  LET g == findById(groups.groups, selected.groupId)
      k == IF g = 0 THEN 0 ELSE findById(groups.groups[g].presets, selected.presetId)
  IN IF selected.groupId = Undefined \/ g = 0 \/ selected.presetId = Undefined \/ k = 0
     THEN [selection |-> selected, form |-> values]
     ELSE [selection |-> selected,
           form |-> fillFromPreset(groups.groups[g].presets[k], values)]

\* the selection effect, run until it changes nothing: the selection and the
\* form values it leaves
selectionEffect(selected, groups, values) ==
  LET g == findById(groups.groups, selected.groupId)
  IN IF selected.groupId = Undefined \/ groups.groups = <<>> \/ g = 0
     THEN [selection |-> selected, form |-> values]
     ELSE LET group == groups.groups[g]
              k == findById(group.presets, selected.presetId)
          IN IF selected.presetId = Undefined /\ group.presets # <<>>
             THEN [selection |-> [selected EXCEPT !.presetId = group.presets[1].id],
                   form |-> fillFromPreset(group.presets[1], values)]
             ELSE IF selected.presetId # Undefined /\ k # 0
             THEN [selection |-> selected, form |-> fillFromPreset(group.presets[k], values)]
             ELSE [selection |-> selected, form |-> values]

\* a handler set the selection, the groups and the form; the effects follow
\* when the selection or the groups changed
SelectStep(op, selected, groups, values, stored, ids) ==
  LET ran == stored \/ selected # selection
      after == IF ran THEN selectionEffect(selected, groups, values)
               ELSE [selection |-> selected, form |-> values]
  IN /\ stored => clock < MaxSelectOps
     /\ selection' = after.selection
     /\ SetFormTo(after.form)
     /\ groupsState' = groups
     /\ storage' = IF stored THEN saveGroups(groups, storage) ELSE storage
     /\ nextId' = nextId + ids
     /\ clock' = IF stored THEN clock + 1 ELSE clock
     /\ lastOp' = [op |-> op, ran |-> ran, selected |-> selected, form |-> values,
                   before |-> groupsState]
     /\ UNCHANGED <<historyState, page, hash, codec, importDialogOpen, isSending, exec,
                    calls, fetches, lastExecution, execs>>

\* the user types into the form
EditForm ==
  \E new \in SelectForms :
    /\ new # form
    /\ SelectStep("editForm", selection, groupsState, new, FALSE, 0)

\* the button of a group: setSelectedGroupId(group.id), setSelectedPresetId(undefined)
SelectGroup ==
  \E i \in DOMAIN groupsState.groups :
    SelectStep("selectGroup", [groupId |-> groupsState.groups[i].id, presetId |-> Undefined],
               groupsState, form, FALSE, 0)

\* the button of a preset: both ids are set and fillFromPreset(preset) called
SelectPreset ==
  \E i \in DOMAIN groupsState.groups :
    \E j \in DOMAIN groupsState.groups[i].presets :
      LET group == groupsState.groups[i]
      IN SelectStep("selectPreset", [groupId |-> group.id, presetId |-> group.presets[j].id],
                    groupsState, fillFromPreset(group.presets[j], form), FALSE, 0)

\* createGroupAndSelect(name): the updater given to setGroupsState has run
\* when newGroupId is read (eager) or it has not
CreateGroupAndSelect ==
  \E name \in {"a"}, eager \in BOOLEAN :
    SelectStep("createGroup",
               IF eager THEN [groupId |-> nextId, presetId |-> Undefined] ELSE selection,
               createGroup(name, groupsState, nextId, clock), form, TRUE, 1)

\* the group ids the save dialog can submit: a listed group, or the selected
\* group id it starts with
SaveTargets ==
  GroupIds(groupsState)
  \cup (IF selection.groupId # Undefined THEN {selection.groupId} ELSE {})

\* handleSavePreset(groupId, name): the form values become a preset of the group
SavePresetAndSelect ==
  \E groupId \in SaveTargets, name \in {"a"} :
    LET preset == [id |-> nextId, name |-> name,
                   request |-> Snapshot(form, form.timestamp), updatedAt |-> clock]
    IN SelectStep("savePreset", [groupId |-> groupId, presetId |-> preset.id],
                  upsertPreset(groupId, preset, groupsState, clock), form, TRUE, 1)

\* the copy item of a preset menu
ClonePresetOfGroup ==
  \E i \in DOMAIN groupsState.groups :
    \E j \in DOMAIN groupsState.groups[i].presets :
      LET group == groupsState.groups[i]
      IN SelectStep("clonePreset", selection,
                    clonePreset(group.id, group.presets[j], groupsState, nextId, clock),
                    form, TRUE, 1)

\* the delete item of a preset menu
DeletePresetOfGroup ==
  \E i \in DOMAIN groupsState.groups :
    \E j \in DOMAIN groupsState.groups[i].presets :
      LET group == groupsState.groups[i]
      IN SelectStep("deletePreset", selection,
                    deletePreset(group.id, group.presets[j].id, groupsState, clock),
                    form, TRUE, 0)

\* the delete item of a group menu
DeleteGroupOfList ==
  \E i \in DOMAIN groupsState.groups :
    SelectStep("deleteGroup", selection, deleteGroup(groupsState.groups[i].id, groupsState),
               form, TRUE, 0)

NextSelect ==
  \/ EditForm
  \/ SelectGroup
  \/ SelectPreset
  \/ CreateGroupAndSelect
  \/ SavePresetAndSelect
  \/ ClonePresetOfGroup
  \/ DeletePresetOfGroup
  \/ DeleteGroupOfList
  \/ SignJobSettles

SpecSelect == InitStore /\ [][NextSelect]_vars

-----------------------------------------------------------------------------
(* Claims on the Groups aggregate, checked under SpecStore *)

\* C1: in every reachable state lastUsedGroupId, when set, is the id of a
\* group present in groups, and lastUsedPresetId, when set, is the id of a
\* preset present in some group.
C1_LastUsedResolve ==
  /\ groupsState.lastUsedGroupId # Undefined
       => groupsState.lastUsedGroupId \in GroupIds(groupsState)
  /\ groupsState.lastUsedPresetId # Undefined
       => groupsState.lastUsedPresetId \in PresetIds(groupsState)

\* The presets of the group with the given id (none when the id matches nothing)
PresetIdsOfGroup(g, id) ==
  UNION {{g.groups[i].presets[j].id : j \in DOMAIN g.groups[i].presets} :
           i \in {k \in DOMAIN g.groups : g.groups[k].id = id}}

\* C3: deleteGroup(id) removes the group with that id and all its presets,
\* leaves every other group unchanged, clears lastUsedGroupId exactly when it
\* was id, and clears lastUsedPresetId exactly when it pointed at a preset of
\* the deleted group.
C3_DeleteGroupClearsInside ==
  lastOp.op = "deleteGroup" =>
    LET b == lastOp.before
        id == lastOp.groupId
    IN /\ groupsState.groups = SelectSeq(b.groups, LAMBDA g : g.id # id)
       /\ groupsState.lastUsedGroupId =
            (IF b.lastUsedGroupId = id THEN Undefined ELSE b.lastUsedGroupId)
       /\ groupsState.lastUsedPresetId =
            (IF b.lastUsedPresetId \in PresetIdsOfGroup(b, id)
             THEN Undefined ELSE b.lastUsedPresetId)

\* The positions <<group index, preset index>> at which a preset id occurs
Occurrences(g, id) ==
  {pos \in UNION {{<<i, j>> : j \in DOMAIN g.groups[i].presets} : i \in DOMAIN g.groups} :
     g.groups[pos[1]].presets[pos[2]].id = id}

\* C4: every preset id occurs in exactly one group and at most once inside
\* that group.
C4_PresetOwnedByOneGroup ==
  \A id \in PresetIds(groupsState) : Cardinality(Occurrences(groupsState, id)) = 1

\* C6: upsertPreset on an existing group replaces a preset with the same id
\* at its position, keeping length and order, and otherwise appends the
\* preset as the last element, keeping all earlier presets in place.
C6_UpsertInPlaceOrAppend ==
  (lastOp.op = "upsertPreset" /\ lastOp.groupId \in GroupIds(lastOp.before)) =>
    LET old == GroupById(lastOp.before, lastOp.groupId).presets
        new == GroupById(groupsState, lastOp.groupId).presets
        preset == lastOp.preset
    IN IF \E j \in DOMAIN old : old[j].id = preset.id
       THEN /\ Len(new) = Len(old)
            /\ \A j \in DOMAIN old :
                 new[j] = (IF old[j].id = preset.id THEN preset ELSE old[j])
       ELSE /\ Len(new) = Len(old) + 1
            /\ new[Len(new)] = preset
            /\ \A j \in DOMAIN old : new[j] = old[j]

\* C6 witness: a preset that is not the last of its group was replaced by a
\* changed record, in a group of at least two presets.
C6_Witness ==
  /\ lastOp.op = "upsertPreset"
  /\ lastOp.groupId \in GroupIds(lastOp.before)
  /\ LET old == GroupById(lastOp.before, lastOp.groupId).presets
     IN /\ Len(old) >= 2
        /\ old[1].id = lastOp.preset.id
        /\ old[1] # lastOp.preset
        /\ GroupById(groupsState, lastOp.groupId).presets[1] = lastOp.preset

-----------------------------------------------------------------------------
(* Claims on the History aggregate, checked under SpecHistory *)

\* C2: in every reachable state the number of history items is at most the
\* history's limit (500 when no limit is stored).
C2_ItemsWithinLimit ==
  /\ Len(historyState.items) <= limitOf(historyState)
  /\ Len(loadHistory.value.items) <= limitOf(loadHistory.value)

\* C5 (as stated): pushHistory(entry, h) returns entry followed by the first
\* limit - 1 items of h in their original order, for every h.
C5_PushPrependsAlways ==
  lastOp.op = "pushHistory" =>
    LET h == lastOp.before
    IN historyState.items =
         <<lastOp.entry>> \o SubSeq(h.items, 1, Min(limitOf(h) - 1, Len(h.items)))

\* C5 (amended): pushHistory(entry, h) returns the first limit items of entry
\* followed by h.items: for limit >= 1 that is entry followed by the first
\* limit - 1 items of h in their original order, so a push onto a history
\* with items.length = limit >= 1 evicts exactly the last entry; for limit 0
\* it returns no items at all. The returned limit is h.limit, or 500 when
\* absent.
C5_PushPrependsTruncates ==
  lastOp.op = "pushHistory" =>
    LET h == lastOp.before
        limit == limitOf(h)
    IN /\ historyState.limit = limit
       /\ limit >= 1 =>
            /\ historyState.items =
                 <<lastOp.entry>> \o SubSeq(h.items, 1, Min(limit - 1, Len(h.items)))
            /\ Len(h.items) = limit =>
                 historyState.items = <<lastOp.entry>> \o SubSeq(h.items, 1, Len(h.items) - 1)
       /\ limit = 0 => historyState.items = <<>>

\* C5 witness: a push onto a full history of two or more items evicted
\* exactly its last item.
C5_Witness ==
  /\ lastOp.op = "pushHistory"
  /\ Len(lastOp.before.items) = limitOf(lastOp.before)
  /\ Len(lastOp.before.items) >= 2
  /\ historyState.items[1] = lastOp.entry
  /\ Len(historyState.items) = Len(lastOp.before.items)
  /\ lastOp.before.items[Len(lastOp.before.items)] \notin
       {historyState.items[i] : i \in DOMAIN historyState.items}

-----------------------------------------------------------------------------
(* Claims on the send handler and the executor, checked under SpecSend *)

\* the step that ran last finished the call of a send
Finished == lastOp.call.pc \in {"returned", "raised"}

\* C7: every send that passes validation and dispatches a request appends
\* exactly one History entry, on any HTTP status and on transport failure:
\* the history holds one entry per dispatched request that has finished,
\* each under its own id.
C7_OneEntryPerExecution ==
  /\ Len(historyState.items) = fetches - (IF InFlight THEN 1 ELSE 0)
  /\ \A i, j \in DOMAIN historyState.items :
       historyState.items[i].id = historyState.items[j].id => i = j
  /\ Finished =>
       /\ Len(historyState.items) >= 1
       /\ historyState.items[1].request = [lastOp.call.request EXCEPT !.timestamp =
             historyState.items[1].requestSummary.timestamp]

\* C7 witness: a dispatched request has returned with a non-2xx status and
\* the history holds exactly the entry of that execution.
C7_Witness ==
  /\ Finished
  /\ fetches = 1
  /\ Len(historyState.items) = 1
  /\ lastOp.call.pc = "returned"
  /\ lastOp.call.status = 500

\* C8: when executeMultipartRequest raises, the handler shows the error and
\* records a History entry with ok = false, status = null, durationMs = 0,
\* empty responseText and the error message.
C8_FailureIsLogged ==
  lastOp.outcome = "raised" =>
    /\ lastOp.toast.variant = "destructive"
    /\ lastOp.toast.description \in {"Failed to fetch", "The operation was aborted"}
    /\ Len(historyState.items) >= 1
    /\ LET log == historyState.items[1]
       IN /\ log.ok = FALSE
          /\ log.status = NullStatus
          /\ log.durationMs = 0
          /\ log.responseText = ""
          /\ log.errorMessage = lastOp.toast.description

\* C8 witness: the abort timer ended a request after time had passed and
\* after the response head had arrived.
C8_Witness ==
  /\ lastOp.op = "timerFires"
  /\ lastOp.call.pc = "raised"
  /\ lastOp.call.elapsed >= 1
  /\ lastOp.call.status = 200

\* the listed defects of the values the validation of handleSend sees
ListedDefect(values) ==
  \/ ~isUrl(values.url)
  \/ values.appkey = "" \/ values.password = "" \/ values.ver = "" \/ values.dataRaw = ""
  \/ ~isTimestamp14(values.timestamp)
  \/ ~isValidJson(values.dataRaw)
  \/ values.dataB64 = ""

\* what handleSend(convertFirst) validates: the form after the conversion
Validated(convertFirst) ==
  IF convertFirst THEN handleConvertBase64(form, TRUE).form ELSE form

NothingSent ==
  /\ lastOp'.outcome = "invalid"
  /\ lastOp'.toast.variant = "destructive"
  /\ historyState' = historyState
  /\ storage' = storage
  /\ fetches' = fetches
  /\ exec' = exec
  /\ isSending' = isSending

\* C9 (as stated): when the form has a malformed URL, an empty required
\* field, a timestamp that is not 14 digits, invalid or empty JSON or an
\* empty Base64 payload, the send handler dispatches no request and leaves
\* the History unchanged.
C9_AnyDefectBlocks ==
  [][(lastOp'.op = "handleSend" /\ ListedDefect(Validated(lastOp'.convertFirst)))
       => NothingSent]_vars

\* C9 (amended): the handler dispatches nothing and leaves the History
\* unchanged when the form fails the schema (malformed URL, empty appkey,
\* password, ver or dataRaw, timestamp not 14 digits, timeout out of range)
\* or the Base64 payload is empty; invalid JSON in dataRaw blocks the send
\* only when the handler converts first (handleSend(true)): a plain send
\* (handleSend(false)) checks only that dataRaw is not empty.
C9_ValidationBlocks ==
  [][(/\ lastOp'.op = "handleSend"
      /\ LET values == Validated(lastOp'.convertFirst)
         IN \/ ~isUrl(values.url)
            \/ values.appkey = "" \/ values.password = "" \/ values.ver = ""
            \/ values.dataRaw = ""
            \/ ~isTimestamp14(values.timestamp)
            \/ values.timeoutMs < 1000 \/ values.timeoutMs > 600000
            \/ values.dataB64 = ""
            \/ (lastOp'.convertFirst /\ ~isValidJson(form.dataRaw)))
       => NothingSent]_vars

\* C9 witness: a send was refused for invalid JSON while the History held
\* the entry of an earlier execution.
C9_Witness ==
  /\ lastOp.op = "handleSend"
  /\ lastOp.outcome = "invalid"
  /\ lastOp.toast.title = "JSON format error"
  /\ Len(historyState.items) = 1
  /\ fetches = 1

-----------------------------------------------------------------------------
(* Claims on the executor, checked under SpecExec and LiveExec *)

ActiveCall(i) == i \in DOMAIN execs /\ execs[i].pc \in {"signing", "fetching", "reading"}
FinishedCall(i) == i \in DOMAIN execs /\ execs[i].pc \in {"returned", "raised"}

\* C10: every call to executeMultipartRequest eventually finishes; the abort
\* fires when timeoutMs have passed since the timer was armed (right after
\* the local hash call settled), and then the call raises an error to the
\* caller; a call that got no response does not return, it raises.
C10_EveryCallFinishes ==
  /\ \A i \in 1 .. MaxCalls : ActiveCall(i) ~> FinishedCall(i)
  /\ [](\A i \in DOMAIN execs :
          execs[i].timer = "fired" =>
            /\ execs[i].pc = "raised"
            /\ execs[i].elapsed = TicksOf(execs[i].timeoutMs)
            /\ execs[i].error = "The operation was aborted")
  /\ [](\A i \in DOMAIN execs :
          (FinishedCall(i) /\ execs[i].status = NullStatus) =>
            execs[i].pc = "raised" /\ execs[i].error # Absent)

\* C10 witness: the timer aborted a call that the server never answered,
\* while an overlapping call had returned.
C10_Witness ==
  /\ Len(execs) = 2
  /\ execs[1].pc = "raised"
  /\ execs[1].status = NullStatus
  /\ execs[1].timer = "fired"
  /\ execs[2].pc = "returned"

-----------------------------------------------------------------------------
(* Claims on the outcome of a send, checked under SpecSend *)

\* C11: a response is returned as a normal execution whatever its status: the
\* History entry carries the numeric status, ok exactly when the status is
\* 2xx and the measured duration, and the toast is not an error; the call
\* raises only on a network failure or an abort.
C11_Non2xxIsAnExecution ==
  /\ lastOp.call.pc = "returned" =>
       /\ lastOp.op = "bodyRead"
       /\ lastOp.toast.variant = "default"
       /\ Len(historyState.items) >= 1
       /\ LET log == historyState.items[1]
          IN /\ log.status = lastOp.call.status
             /\ log.status \in {200, 500}
             /\ log.ok = (log.status >= 200 /\ log.status <= 299)
             /\ log.durationMs = lastOp.call.elapsed * 1000
             /\ log.errorMessage = (IF log.ok THEN Absent ELSE "HTTP non-2xx")
             /\ lastExecution.set
             /\ lastExecution.status = log.status
             /\ lastExecution.ok = log.ok
  /\ lastOp.call.pc = "raised" =>
       /\ lastOp.op \in {"fetchFails", "timerFires"}
       /\ lastOp.call.error \in {"Failed to fetch", "The operation was aborted"}

\* C11 witness: a 500 response that took a second was returned and logged.
C11_Witness ==
  /\ lastOp.op = "bodyRead"
  /\ lastOp.call.status = 500
  /\ lastOp.call.elapsed = 1
  /\ historyState.items[1].status = 500
  /\ historyState.items[1].durationMs = 1000

-----------------------------------------------------------------------------
(* Claims on import and load, checked under SpecHistory *)

\* the stored text under a key parses to the aggregate
Stored(key, value) == storage[key] = [kind |-> "json", value |-> value]

\* the import replaced both states and, with a store, both stored aggregates
\* by the payload's values
ReplacedByPayload ==
  /\ lastOp.accepted
  /\ groupsState = lastOp.data.groups
  /\ historyState = lastOp.data.history
  /\ ~importDialogOpen
  /\ storage.available => Stored("groups", lastOp.data.groups)
                           /\ Stored("history", lastOp.data.history)

\* C12 (as stated): importAll on an object that has both a groups and a
\* history member replaces both aggregates by exactly the payload's values
\* and returns them.
C12_BothMembersReplace ==
  (/\ lastOp.op = "importAll"
   /\ lastOp.data.kind = "object"
   /\ lastOp.data.groupsIs # "absent"
   /\ lastOp.data.historyIs # "absent") => ReplacedByPayload

\* C12 (amended): importAll on an object whose groups and history members
\* are both present and truthy (not null) replaces both aggregates by exactly
\* the payload's values, keeps nothing of the previous ones, and returns
\* them; an object with a null member is refused like one without it.
C12_TruthyMembersReplace ==
  /\ (/\ lastOp.op = "importAll"
      /\ lastOp.data.kind = "object"
      /\ lastOp.data.groupsIs = "value"
      /\ lastOp.data.historyIs = "value") => ReplacedByPayload
  /\ (/\ lastOp.op = "importAll"
      /\ "null" \in {lastOp.data.groupsIs, lastOp.data.historyIs}) => ~lastOp.accepted

\* C12 witness: an import replaced a History that held entries by a payload
\* with other entries, with a store that already held both aggregates.
C12_Witness ==
  /\ lastOp.op = "importAll"
  /\ lastOp.accepted
  /\ Len(lastOp.before.items) >= 1
  /\ Len(lastOp.data.history.items) >= 1
  /\ lastOp.data.history.items[1] # lastOp.before.items[1]
  /\ Stored("history", lastOp.data.history)

\* C13: importAll on null, on a non-object or on an object without groups
\* or without history returns null and writes nothing: both stored
\* aggregates and both states are unchanged and the import dialog stays open.
C13_InvalidImportWritesNothing ==
  [][(/\ lastOp'.op = "importAll"
      /\ clock' = clock + 1
      /\ \/ lastOp'.data.kind # "object"
         \/ lastOp'.data.groupsIs = "absent"
         \/ lastOp'.data.historyIs = "absent")
     => /\ ~lastOp'.accepted
        /\ storage' = storage
        /\ groupsState' = groupsState
        /\ historyState' = historyState
        /\ importDialogOpen /\ importDialogOpen']_vars

\* C13 witness: an object with groups but without history was refused while
\* the store and the History held entries; the dialog is open.
C13_Witness ==
  /\ lastOp.op = "importAll"
  /\ ~lastOp.accepted
  /\ lastOp.data.groupsIs = "value"
  /\ lastOp.data.historyIs = "absent"
  /\ lastOp.data.groups # groupsState
  /\ importDialogOpen
  /\ Len(historyState.items) >= 1
  /\ Stored("history", historyState)

\* the key cannot be read: no store, no text, the empty text, text that is
\* not JSON
Unreadable(key) == ~storage.available \/ storage[key].kind \in {"absent", "empty", "invalid"}

\* C15: loadGroups and loadHistory never raise, and they return the empty
\* default aggregate when the store is unavailable, the key is absent or
\* empty, or the stored text is not valid JSON.
C15_LoadFallsBack ==
  /\ ~loadGroups.raised
  /\ ~loadHistory.raised
  /\ ~lastOp.raised
  /\ Unreadable("groups") => loadGroups.value = [groups |-> <<>>, lastUsedGroupId |-> Undefined,
                                                lastUsedPresetId |-> Undefined]
  /\ Unreadable("history") => loadHistory.value = [items |-> <<>>, limit |-> 500]
  /\ (storage.available /\ storage.history.kind = "json") =>
       loadHistory.value = storage.history.value

\* C15 witness: the page was loaded without a store while its History held
\* entries: both states are the defaults.
C15_Witness ==
  /\ lastOp.op = "loadHistory"
  /\ ~storage.available
  /\ Len(lastOp.before.items) >= 1
  /\ groupsState = EmptyGroups
  /\ historyState = DefaultHistory

-----------------------------------------------------------------------------
(* Claims on persistence, checked under SpecPersist *)

GroupMutations ==
  {"createGroup", "renameGroup", "deleteGroup", "upsertPreset", "deletePreset", "clonePreset"}
HistoryMutations == {"pushHistory", "clearHistory"}

\* C14: with the store available, after every store mutation the value stored
\* under the key of the aggregate is the complete aggregate the operation
\* returned.
C14_StoredIsReturned ==
  storage.available =>
    /\ lastOp.op \in GroupMutations => Stored("groups", groupsState)
    /\ lastOp.op \in HistoryMutations => Stored("history", historyState)

\* C14 witness: a preset was deleted after the History had been written: the
\* stored groups are the whole new aggregate, the stored History is intact.
C14_Witness ==
  /\ lastOp.op = "deletePreset"
  /\ storage.available
  /\ Len(lastOp.before.groups) >= 1
  /\ groupsState # lastOp.before
  /\ Len(historyState.items) >= 1
  /\ Stored("groups", groupsState)
  /\ Stored("history", historyState)

-----------------------------------------------------------------------------
(* Claims on the signer, checked under SpecSign *)

\* C16: for every input string, the empty string included, md5UpperHex
\* returns the 32-character uppercase hexadecimal MD5 digest of the input.
C16_ReturnsDigestOfInput ==
  hash.pc = "returned" => hash.result = MD5(hash.input) /\ Len(hash.result) = 32

-----------------------------------------------------------------------------
(* Claims on the fields a call transmits, checked under SpecCall *)

\* the form data of the call has been built and handed to fetch
Transmitted(call) == call.pc \in {"fetching", "reading", "returned", "raised"}

\* C18: the transmitted sign is the signer's result for the transmitted
\* timestamp, the transmitted data and the password, concatenated; the
\* transmitted data is request.dataB64 when that is non-empty and "" otherwise;
\* the returned RequestExecution reports the transmitted timestamp and sign.
C18_SignedAsTransmitted ==
  \A i \in DOMAIN execs :
    LET call == execs[i]
    IN /\ Transmitted(call) =>
            /\ call.body.sign = md5UpperHex(call.body.timestamp \o call.body.data
                                            \o call.request.password)
            /\ call.body.data = IF call.request.dataB64 \in {Absent, ""} THEN ""
                                ELSE call.request.dataB64
       /\ call.pc = "returned" =>
            /\ call.execution.timestamp = call.body.timestamp
            /\ call.execution.sign = call.body.sign

C18_Witness ==
  \E i \in DOMAIN execs :
    /\ execs[i].pc = "returned"
    /\ execs[i].forceTime = NowTs
    /\ execs[i].request.timestamp = BuildTs
    /\ execs[i].request.dataRaw = JsonText
    /\ execs[i].request.dataB64 = ""
    /\ execs[i].body.data = ""
    /\ execs[i].body.sign = "E16FE94B270267F75501AB8D1A72FDF1"
    /\ execs[i].execution.sign = "E16FE94B270267F75501AB8D1A72FDF1"

\* C19: the transmitted timestamp is forceTime when it is given, else
\* request.timestamp when the request has one, else a fresh 14-digit
\* timestamp; it is a non-empty 14-digit string or a value of the caller.
C19_EffectiveTimestamp ==
  \A i \in DOMAIN execs :
    LET call == execs[i]
        T == call.body.timestamp
    IN Transmitted(call) =>
         /\ call.forceTime # Absent => T = call.forceTime
         /\ call.forceTime = Absent /\ call.request.timestamp # Absent
              => T = call.request.timestamp
         /\ call.forceTime = Absent /\ call.request.timestamp = Absent
              => T = getTimestamp /\ isTimestamp14(T)
         /\ \/ T # "" /\ isTimestamp14(T)
            \/ T = call.forceTime
            \/ T = call.request.timestamp

C19_Witness ==
  \E i \in DOMAIN execs :
    /\ Transmitted(execs[i])
    /\ execs[i].forceTime = Absent
    /\ execs[i].request.timestamp = Absent
    /\ execs[i].body.timestamp = NowTs

-----------------------------------------------------------------------------
(* Claims on the codec, checked under SpecCodec *)

\* C20: for every input string (empty, ASCII-only, multi-byte),
\* decodeBase64ToUtf8(encodeUtf8ToBase64(s)) returns { data: s } and no
\* error, with a global Buffer and without one.
C20_RoundTrip ==
  /\ codec.pc # "raised"
  /\ codec.pc = "decoded" => codec.decoded = DataResult(codec.input)

\* the round trip of "a" U+4E2D U+1F600 without a Buffer, through YeS4rfCfmIA=
C20_Witness ==
  /\ codec.pc = "decoded"
  /\ ~codec.hasBuffer
  /\ codec.input = <<97, 20013, 55357, 56832>>
  /\ codec.encoded = <<24, 30, 18, 56, 43, 31, 2, 31, 38, 8, 0, Pad>>
  /\ codec.decoded.data = codec.input

-----------------------------------------------------------------------------
(* Claims on the decoder, checked under SpecDecode *)

\* the text has a character outside the alphabet, padding that is not one or
\* two "=" closing a text of a multiple of four characters, or a length no
\* Base64 text has
Malformed(text) ==
  \/ \E i \in DOMAIN text : text[i] = Invalid
  \/ (\E i \in DOMAIN text : text[i] = Pad) /\ ~(paddedAtEnd(text) /\ Len(text) % 4 = 0)
  \/ Len(text) % 4 = 1

\* C21: decodeBase64ToUtf8 returns { data: "" } on the empty text, and an
\* error without data on a text with a character outside the alphabet or with
\* malformed padding, with a global Buffer and without one.
C21_MalformedGivesError ==
  codec.pc = "decodedText" =>
    /\ codec.encoded = <<>> => codec.decoded = DataResult(<<>>)
    /\ Malformed(codec.encoded) => ~codec.decoded.hasData /\ codec.decoded.error # Absent

-----------------------------------------------------------------------------
(* Claims on single store operations, checked under SpecStore *)

\* C23: createGroup appends one group with an id no group had and no preset,
\* leaves the groups before it as they were, sets lastUsedGroupId to the new
\* id and clears lastUsedPresetId.
C23_CreateGroupAppends ==
  lastOp.op = "createGroup" =>
    LET before == lastOp.before
        n == Len(before.groups)
    IN /\ Len(groupsState.groups) = n + 1
       /\ SubSeq(groupsState.groups, 1, n) = before.groups
       /\ groupsState.groups[n + 1].id \notin GroupIds(before)
       /\ groupsState.groups[n + 1].presets = <<>>
       /\ groupsState.lastUsedGroupId = groupsState.groups[n + 1].id
       /\ groupsState.lastUsedPresetId = Undefined

C23_Witness ==
  /\ lastOp.op = "createGroup"
  /\ Len(lastOp.before.groups) >= 1
  /\ lastOp.before.lastUsedPresetId # Undefined
  /\ groupsState.lastUsedPresetId = Undefined

\* C24: clonePreset on a group that exists appends to it one preset with the
\* request of the given preset, its name followed by " Copy" and an id no
\* preset had; the presets before it, the other groups and both last-used
\* ids are unchanged.
C24_ClonePresetAppends ==
  lastOp.op = "clonePreset" /\ lastOp.groupId \in GroupIds(lastOp.before) =>
    LET before == lastOp.before
    IN /\ Len(groupsState.groups) = Len(before.groups)
       /\ \A i \in DOMAIN before.groups :
            IF before.groups[i].id = lastOp.groupId
            THEN LET old == before.groups[i].presets
                     new == groupsState.groups[i].presets
                 IN /\ Len(new) = Len(old) + 1
                    /\ SubSeq(new, 1, Len(old)) = old
                    /\ new[Len(new)].request = lastOp.preset.request
                    /\ new[Len(new)].name = lastOp.preset.name \o " Copy"
                    /\ new[Len(new)].id \notin PresetIds(before)
            ELSE groupsState.groups[i] = before.groups[i]
       /\ groupsState.lastUsedGroupId = before.lastUsedGroupId
       /\ groupsState.lastUsedPresetId = before.lastUsedPresetId

C24_Witness ==
  /\ lastOp.op = "clonePreset"
  /\ lastOp.groupId \in GroupIds(lastOp.before)
  /\ Len(lastOp.before.groups) >= 2
  /\ lastOp.before.lastUsedPresetId = lastOp.preset.id
  /\ PresetIds(groupsState) # PresetIds(lastOp.before)

\* C25: renameGroup, upsertPreset, deletePreset and clonePreset leave every
\* group but the one addressed unchanged and keep the order of the groups;
\* with an id that matches no group the groups are unchanged.
C25_OtherGroupsUntouched ==
  lastOp.op \in {"renameGroup", "upsertPreset", "deletePreset", "clonePreset"} =>
    LET before == lastOp.before
    IN /\ Len(groupsState.groups) = Len(before.groups)
       /\ \A i \in DOMAIN before.groups :
            /\ groupsState.groups[i].id = before.groups[i].id
            /\ before.groups[i].id # lastOp.groupId
                 => groupsState.groups[i] = before.groups[i]
       /\ lastOp.groupId \notin GroupIds(before) => groupsState.groups = before.groups

C25_Witness ==
  /\ lastOp.op = "renameGroup"
  /\ Len(lastOp.before.groups) >= 2
  /\ lastOp.before.groups[1].id = lastOp.groupId
  /\ groupsState.groups[1] # lastOp.before.groups[1]
  /\ groupsState.groups[2] = lastOp.before.groups[2]

-----------------------------------------------------------------------------
(* Claims on the selection of the page, checked under SpecSelect *)

SelectOps == {"editForm", "selectGroup", "selectPreset", "createGroup", "savePreset",
              "clonePreset", "deletePreset", "deleteGroup"}

\* the presets of the selected group, none when the group does not exist
SelectedPresets(selected) ==
  UNION {{groupsState.groups[i].presets[j] : j \in DOMAIN groupsState.groups[i].presets} :
         i \in {i \in DOMAIN groupsState.groups : groupsState.groups[i].id = selected.groupId}}

\* the form holds the request of the preset
FilledFrom(preset) ==
  /\ form.url = preset.request.url
  /\ form.appkey = preset.request.appkey
  /\ form.password = preset.request.password
  /\ form.ver = preset.request.ver
  /\ form.timestamp = preset.request.timestamp
  /\ form.dataRaw = preset.request.dataRaw
  /\ form.dataB64 = preset.request.dataB64

\* C22: after a handler changed the selection or the groups: with a selected
\* group that exists and has presets and no selected preset, the first preset
\* of the group is selected and fills the form; with a selected preset that is
\* in the selected group, that preset fills the form; otherwise the form and
\* the selection are as the handler left them. A selected group with presets
\* is never left without a selected preset.
C22_SelectionFillsForm ==
  /\ lastOp.op \in SelectOps /\ lastOp.ran =>
       LET selected == lastOp.selected
           presets == SelectedPresets(selected)
       IN IF selected.groupId # Undefined /\ presets # {} /\ selected.presetId = Undefined
          THEN \E i \in DOMAIN groupsState.groups :
                 /\ groupsState.groups[i].id = selected.groupId
                 /\ selection = [groupId |-> selected.groupId,
                                 presetId |-> groupsState.groups[i].presets[1].id]
                 /\ FilledFrom(groupsState.groups[i].presets[1])
          ELSE IF selected.groupId # Undefined /\ selected.presetId # Undefined
                  /\ \E preset \in presets : preset.id = selected.presetId
          THEN /\ selection = selected
               /\ \E preset \in presets : preset.id = selected.presetId /\ FilledFrom(preset)
          ELSE selection = selected /\ form = lastOp.form
  /\ lastOp.op \in SelectOps /\ ~lastOp.ran => selection = lastOp.selected /\ form = lastOp.form
  /\ selection.groupId # Undefined /\ SelectedPresets(selection) # {}
       => selection.presetId # Undefined

\* a group is selected whose first preset differs from what the user had typed
C22_Witness ==
  /\ lastOp.op = "selectGroup"
  /\ lastOp.ran
  /\ lastOp.selected.presetId = Undefined
  /\ selection.presetId # Undefined
  /\ form # lastOp.form
  /\ Len(groupsState.groups) >= 2

\* C29: selectedGroupId, when set, is the id of a group of the Groups state,
\* and selectedPresetId, when set, the id of a preset of that group.
C29_SelectionResolves ==
  /\ selection.groupId # Undefined => selection.groupId \in GroupIds(groupsState)
  /\ selection.presetId # Undefined
       => \E preset \in SelectedPresets(selection) : preset.id = selection.presetId

-----------------------------------------------------------------------------
(* Claims on overlapping executions, checked under SpecExec *)

\* C26: a step in which one call finishes (its timer fires, its fetch fails or
\* its body arrives) leaves every other call as it was: pc, timer, elapsed
\* time, status and result; and a finished call never changes again.
C26_OverlapIndependent ==
  [][/\ \A i \in DOMAIN execs : \A j \in DOMAIN execs :
          i # j /\ ~Settled(execs[i]) /\ Settled(execs'[i]) => execs'[j] = execs[j]
     /\ \A j \in DOMAIN execs : Settled(execs[j]) => execs'[j] = execs[j]]_vars

\* two calls were pending over the same second; the second has returned, the
\* timer of the first is still armed and due
C26_Witness ==
  /\ Len(execs) >= 2
  /\ execs[2].pc = "returned"
  /\ execs[2].timer = "cleared"
  /\ execs[2].elapsed = 1
  /\ execs[1].pc = "fetching"
  /\ execs[1].timer = "armed"
  /\ execs[1].elapsed = 1
  /\ Due(execs[1])

-----------------------------------------------------------------------------
(* Claims on the signatures of the page, checked under SpecSend *)

\* C27: every History entry, of a returned and of a failed request, carries in
\* requestSummary.sign the signature of its requestSummary.timestamp, the
\* dataB64 and the password of its snapshot, and the entry a finished call
\* leaves carries the signature that call sent.
C27_LoggedSignIsSent ==
  /\ \A k \in DOMAIN historyState.items :
       LET entry == historyState.items[k]
       IN entry.requestSummary.sign =
            md5UpperHex(entry.requestSummary.timestamp \o entry.request.dataB64
                        \o entry.request.password)
  /\ lastOp.op \in {"bodyRead", "fetchFails", "timerFires"}
       => historyState.items[1].requestSummary.sign = lastOp.call.sign

\* C28: when no md5UpperHex call of the sign effect is pending, the sign state
\* is the signature of the timestamp, dataB64 and password of the form, and
\* it is empty when one of the three is empty.
C28_SettledSignIsCurrent ==
  signJobs = <<>> =>
    sign = IF form.timestamp = "" \/ form.password = "" \/ form.dataB64 = ""
           THEN ""
           ELSE md5UpperHex(form.timestamp \o form.dataB64 \o form.password)

-----------------------------------------------------------------------------
(* Claims on isSending, checked under LiveSend *)

\* C30: isSending is true exactly while a call of handleSend is between its
\* start and its return or throw; each of the three endings (2xx, non-2xx,
\* transport failure or abort) leaves isSending false; and whenever isSending
\* is true it is false again later.
C30_SendingEnds ==
  /\ [](isSending <=> exec.pc \in {"signing", "fetching", "reading"})
  /\ [](lastOp.op \in {"bodyRead", "fetchFails", "timerFires"} => ~isSending)
  /\ (isSending ~> ~isSending)

\* a send has started, time has passed without an answer and its timer is due
C30_Witness ==
  /\ isSending
  /\ exec.pc = "fetching"
  /\ exec.timeoutMs = 2000
  /\ exec.elapsed = 2
  /\ Due(exec)

====
